---- MODULE Spec2Model ----
(***************************************************************************)
(* oyako: the HTTPProxy inclusion controller                               *)
(* (controllers/httpproxy_controller.go).                                  *)
(*                                                                         *)
(* The store holds HTTPProxy objects by (namespace, name).  A worker runs  *)
(* Reconcile for one key; every call the handler makes on the store (Get,  *)
(* Update) is one atomic step of that worker, together with the local      *)
(* computation that follows it up to the next call, so that the            *)
(* invocations of several workers and the edits of users interleave        *)
(* between the read and the write of one invocation.                       *)
(*                                                                         *)
(* A string is a sequence of tokens; the token "/" is the one character    *)
(* the code looks at (strings.Split on "/", the "/%s" default prefix).     *)
(***************************************************************************)
EXTENDS Integers, Sequences, FiniteSets, TLC

VARIABLES
    store,    \* key -> the HTTPProxy object stored under it, or NoObject
    worker,   \* worker -> the state of its Reconcile invocation
    returned, \* what Reconcile returned last, until it is invoked again
    edits,    \* the number of edits users have made so far
    probe     \* the inputs and results of the merge applied on its own

vars == <<store, worker, returned, edits, probe>>

----------------------------------------------------------------------------
(* Bounds *)

\* the number of annotation edits users make in one behaviour
MaxEdits == 1

\* the longest include list the merge is applied to on its own
MaxProbeLen == 2

----------------------------------------------------------------------------
(* Strings and program constants *)

Slash == "/"

allowInclusionAnnotation == "oyako.atelierhsn.com/allow-inclusion"
parentRefAnnotation == "oyako.atelierhsn.com/parent"
pathPrefixAnnotation == "oyako.atelierhsn.com/prefix"
finalizerName == "oyako.atelierhsn.com/finalizer"

EmptyString == <<>>
StrTrue == <<"true">>

\* annotations[key] of a Go map: the zero value "" when the key is absent
AnnotationOf(obj, key) ==
    IF key \in DOMAIN obj.Annotations THEN obj.Annotations[key] ELSE EmptyString

\* the map with key set to value
WithAnnotation(annotations, key, value) ==
    [k \in DOMAIN annotations \cup {key} |->
        IF k = key THEN value ELSE annotations[k]]

\* the map without key
WithoutAnnotation(annotations, key) ==
    [k \in DOMAIN annotations \ {key} |-> annotations[k]]

\* strings.Split(s, "/"): the segments between the separators, one more
\* than there are separators (one empty segment for the empty string)
RECURSIVE Split(_)
Split(s) ==
    IF \A i \in 1..Len(s) : s[i] # Slash
    THEN <<s>>
    ELSE LET i == CHOOSE j \in 1..Len(s) :
                      s[j] = Slash /\ \A k \in 1..(j - 1) : s[k] # Slash
         IN  <<SubSeq(s, 1, i - 1)>> \o Split(SubSeq(s, i + 1, Len(s)))

\* fmt.Sprintf("/%s", name)
SprintfSlash(name) == <<Slash>> \o name

\* client.ObjectKey
ObjectKey(namespace, name) == [Namespace |-> namespace, Name |-> name]

KeyOf(include) == ObjectKey(include.Namespace, include.Name)

\* contourv1.Include with its conditions reduced to their prefixes
Include(namespace, name, prefixes) ==
    [Namespace |-> namespace, Name |-> name,
     Conditions |-> [i \in 1..Len(prefixes) |-> [Prefix |-> prefixes[i]]]]

----------------------------------------------------------------------------
(* The pure helpers of the reconciler *)

hasFinalizer(h, finalizer) == finalizer \in h.Finalizers

\* isPrefixDuplicate, lines 127-139: another child's entry has the prefix
\* among its conditions.  Before it, the function with a fault: without
\* the skip of the child's own entry (lines 129-131), and without the
\* comparison of line 133.
isPrefixDuplicateNoSkip(includes, childKey, prefix) ==
    \E i \in 1..Len(includes) :
        \E c \in 1..Len(includes[i].Conditions) :
            includes[i].Conditions[c].Prefix = prefix

isPrefixDuplicateNever(includes, childKey, prefix) == FALSE

isPrefixDuplicate(includes, childKey, prefix) ==
    \E i \in 1..Len(includes) :
        /\ ~(includes[i].Namespace = childKey.Namespace
             /\ includes[i].Name = childKey.Name)
        /\ \E c \in 1..Len(includes[i].Conditions) :
               includes[i].Conditions[c].Prefix = prefix

\* findIncludeRef, lines 141-148: the index (from 0) of the first entry of
\* the child, -1 when there is none.  Before it, the function with a fault:
\* the comparison of line 143 never holds.
findIncludeRefNever(includes, childKey) == -1

findIncludeRef(includes, childKey) ==
    LET hits == {i \in 1..Len(includes) :
                    includes[i].Namespace = childKey.Namespace
                    /\ includes[i].Name = childKey.Name}
    IN  IF hits = {} THEN -1
        ELSE (CHOOSE i \in hits : \A j \in hits : i <= j) - 1

\* lines 185-188: the prefix annotation, "/" and the child's name when it
\* is absent or empty.  Before it, with a fault: the annotation is not read.
prefixOfNameOnly(childProxy) == SprintfSlash(childProxy.Name)

prefixOf(childProxy) ==
    LET prefix == AnnotationOf(childProxy, pathPrefixAnnotation)
    IN  IF prefix = EmptyString THEN SprintfSlash(childProxy.Name) ELSE prefix

\* lines 193-209: the child's entry gets the one prefix condition, in place
\* when findIncludeRef finds it and appended at the end otherwise.  Before
\* it, with a fault: an append whatever findIncludeRef returns, and a new
\* entry put in front of the list.
withIncludeAlwaysAppend(includes, childProxy, prefix) ==
    Append(includes, Include(childProxy.Namespace, childProxy.Name, <<prefix>>))

withIncludePrepend(includes, childProxy, prefix) ==
    LET prefixCondition == <<[Prefix |-> prefix]>>
        childIdx == findIncludeRef(includes, ObjectKey(childProxy.Namespace, childProxy.Name))
    IN  IF childIdx >= 0
        THEN [includes EXCEPT ![childIdx + 1].Conditions = prefixCondition]
        ELSE <<Include(childProxy.Namespace, childProxy.Name, <<prefix>>)>> \o includes

withInclude(includes, childProxy, prefix) ==
    LET prefixCondition == <<[Prefix |-> prefix]>>
        childIdx == findIncludeRef(includes, ObjectKey(childProxy.Namespace, childProxy.Name))
    IN  IF childIdx >= 0
        THEN [includes EXCEPT ![childIdx + 1].Conditions = prefixCondition]
        ELSE Append(includes,
                    [Namespace |-> childProxy.Namespace,
                     Name |-> childProxy.Name,
                     Conditions |-> prefixCondition])

\* line 164: append(includes[:childIdx], includes[childIdx+1:]...).  Before
\* it, with a fault: includes[:childIdx] alone.
withoutIncludeTruncate(includes, childIdx) == SubSeq(includes, 1, childIdx)

withoutInclude(includes, childIdx) ==
    SubSeq(includes, 1, childIdx) \o SubSeq(includes, childIdx + 2, Len(includes))

\* the errors of the reconciler and of the store
NoError == "nil"
ErrInvalidParent == "invalid parent"
ErrNotAllowed == "parent does not allow child inclusions"
ErrDuplicatePrefix == "duplicate prefix"
ErrNotFound == "NotFound"
ErrConflict == "Conflict"
ErrUnavailable == "Unavailable"

\* lines 182-209 of reconcileParentProxy, between the read of the parent
\* and the write: (stop, err) when it returns before the write, and the
\* include list to write otherwise.  Before it, with a fault: the check of
\* line 190 ahead of the check of line 182.
mergeDuplicateFirst(parentProxy, childProxy) ==
    LET prefix == prefixOf(childProxy)
        includes == parentProxy.Includes
    IN  IF isPrefixDuplicate(includes, ObjectKey(childProxy.Namespace, childProxy.Name), prefix)
        THEN [stop |-> TRUE, err |-> ErrDuplicatePrefix, Includes |-> includes]
        ELSE IF AnnotationOf(parentProxy, allowInclusionAnnotation) # StrTrue
        THEN [stop |-> TRUE, err |-> ErrNotAllowed, Includes |-> includes]
        ELSE [stop |-> FALSE, err |-> NoError,
              Includes |-> withInclude(includes, childProxy, prefix)]

merge(parentProxy, childProxy) ==
    IF AnnotationOf(parentProxy, allowInclusionAnnotation) # StrTrue
    THEN [stop |-> TRUE, err |-> ErrNotAllowed, Includes |-> parentProxy.Includes]
    ELSE LET prefix == prefixOf(childProxy)
             includes == parentProxy.Includes
         IN  IF isPrefixDuplicate(includes, ObjectKey(childProxy.Namespace, childProxy.Name), prefix)
             THEN [stop |-> TRUE, err |-> ErrDuplicatePrefix, Includes |-> includes]
             ELSE [stop |-> FALSE, err |-> NoError,
                   Includes |-> withInclude(includes, childProxy, prefix)]

\* lines 156-165 of cleanupParentProxy, between the read of the parent and
\* the write: the error or nil it returns before the write (write FALSE),
\* and the include list to write otherwise (write TRUE)
remove(parentProxy, childProxy) ==
    IF AnnotationOf(parentProxy, allowInclusionAnnotation) # StrTrue
    THEN [write |-> FALSE, err |-> ErrNotAllowed, Includes |-> parentProxy.Includes]
    ELSE LET includes == parentProxy.Includes
             childIdx == findIncludeRef(includes, ObjectKey(childProxy.Namespace, childProxy.Name))
         IN  IF childIdx < 0
             THEN [write |-> FALSE, err |-> NoError, Includes |-> includes]
             ELSE [write |-> TRUE, err |-> NoError,
                   Includes |-> withoutInclude(includes, childIdx)]

----------------------------------------------------------------------------
(* The store *)

NoObject == [Exists |-> FALSE]

\* an HTTPProxy: its metadata and the include list of its spec
HTTPProxy(namespace, name, annotations, includes) ==
    [Namespace |-> namespace, Name |-> name, Annotations |-> annotations,
     Finalizers |-> {}, Deleting |-> FALSE, Includes |-> includes,
     ResourceVersion |-> 1]

NoAnnotations == [k \in {} |-> EmptyString]

\* the names of the objects
ParentKey == ObjectKey(<<"root">>, <<"example">>)
MissingKey == ObjectKey(<<"root">>, <<"missing">>)
BlogKey == ObjectKey(<<"blog-team">>, <<"blog">>)
SalesKey == ObjectKey(<<"sales-team">>, <<"sales">>)
HogeKey == ObjectKey(<<"hoge">>, <<"hoge">>)
OtherKey == ObjectKey(<<"root">>, <<"other">>)

ChildKeys == {BlogKey, SalesKey}
Keys == {ParentKey, MissingKey, OtherKey} \cup ChildKeys

\* "namespace/name"
RefTo(key) == key.Namespace \o <<Slash>> \o key.Name

\* client.Get: the object, or NoObject for the NotFound error
Get(key) == IF key \in DOMAIN store THEN store[key] ELSE NoObject

\* What the store holds after it accepted obj as the new content of cur: the
\* resource version changes when the content does, and an object whose
\* deletion was requested is erased with its last finalizer.
Stored(cur, obj) ==
    LET next == [obj EXCEPT !.ResourceVersion = cur.ResourceVersion,
                            !.Deleting = cur.Deleting]
    IN  IF next.Deleting /\ next.Finalizers = {} THEN NoObject
        ELSE IF next = cur THEN cur
        ELSE [next EXCEPT !.ResourceVersion = cur.ResourceVersion + 1]

\* client.Update with a fault: a store that does not compare resource
\* versions
UpdateErrorUnversioned(obj) ==
    IF Get(ObjectKey(obj.Namespace, obj.Name)) = NoObject THEN ErrNotFound ELSE NoError

\* client.Update(obj): NotFound when the object is gone, Conflict when obj
\* was read at another resource version than the store now holds
UpdateError(obj) ==
    LET cur == Get(ObjectKey(obj.Namespace, obj.Name))
    IN  IF cur = NoObject THEN ErrNotFound
        ELSE IF cur.ResourceVersion # obj.ResourceVersion THEN ErrConflict
        ELSE NoError

\* the store after client.Update(obj) returned nil
Updated(obj) ==
    LET key == ObjectKey(obj.Namespace, obj.Name)
    IN  [store EXCEPT ![key] = Stored(store[key], obj)]

----------------------------------------------------------------------------
(* The workers *)

Workers == {"w1", "w2"}

\* the store's answers to one call: it serves it, or it is unavailable
Answers == {NoError, ErrUnavailable}

NoKey == ObjectKey(EmptyString, EmptyString)

NoReturn == [req |-> NoKey, err |-> NoError, logged |-> NoError, issued |-> <<>>]

\* a worker that waits for a key
Idle ==
    [pc |-> "idle", req |-> NoKey, httpProxy |-> NoObject,
     parentProxy |-> NoObject, issued |-> <<>>]

\* the worker goes on to its next store call
Continue(w, pc, httpProxy, parentProxy, issued) ==
    /\ worker' = [worker EXCEPT ![w] =
                     [@ EXCEPT !.pc = pc, !.httpProxy = httpProxy,
                               !.parentProxy = parentProxy, !.issued = issued]]
    /\ UNCHANGED returned

\* Reconcile returns (ctrl.Result{}, err) for req, after it issued the
\* updates of the keys in issued; logged is the error of
\* reconcileParentProxy that Reconcile wrote to the log
Return(w, req, err, logged, issued) ==
    /\ worker' = [worker EXCEPT ![w] = Idle]
    /\ returned' = [req |-> req, err |-> err, logged |-> logged, issued |-> issued]

\* getParentProxy with a fault: line 115 as len(namespacedName) < 2, so
\* that the segments after the second are dropped
getParentProxyFirstTwo(parentRef) ==
    LET namespacedName == Split(parentRef)
    IN  IF Len(namespacedName) < 2
        THEN [err |-> ErrInvalidParent, parent |-> NoObject]
        ELSE LET parent == Get(ObjectKey(namespacedName[1], namespacedName[2]))
             IN  [err |-> IF parent = NoObject THEN ErrNotFound ELSE NoError,
                  parent |-> parent]

\* getParentProxy, lines 113-125: the parent the reference names
getParentProxy(parentRef) ==
    LET namespacedName == Split(parentRef)
    IN  IF Len(namespacedName) # 2
        THEN [err |-> ErrInvalidParent, parent |-> NoObject]
        ELSE LET parent == Get(ObjectKey(namespacedName[1], namespacedName[2]))
             IN  [err |-> IF parent = NoObject THEN ErrNotFound ELSE NoError,
                  parent |-> parent]

\* the workqueue hands a key to one worker at a time, the first that waits
Busy(req) == \E v \in Workers : worker[v].pc # "idle" /\ worker[v].req = req

First(w) == w = "w1" \/ worker["w1"].pc # "idle"

\* Reconcile with a fault: without the return of lines 70-72 for a resource
\* that declares no parent
ReconcileEveryResource(w, req) ==
    /\ worker[w].pc = "idle"
    /\ First(w)
    /\ ~Busy(req)
    /\ \E answer \in Answers :
        LET httpProxy == Get(req)
            begin(pc) ==
                /\ worker' = [worker EXCEPT ![w] =
                                 [pc |-> pc, req |-> req, httpProxy |-> httpProxy,
                                  parentProxy |-> NoObject, issued |-> <<>>]]
                /\ returned' = NoReturn
        IN  IF answer # NoError THEN Return(w, req, answer, NoError, <<>>)
            ELSE IF httpProxy = NoObject THEN Return(w, req, NoError, NoError, <<>>)
            ELSE IF ~httpProxy.Deleting
            THEN IF ~hasFinalizer(httpProxy, finalizerName)
                 THEN begin("addFinalizer")
                 ELSE begin("reconcileParentProxy")
            ELSE IF hasFinalizer(httpProxy, finalizerName)
                 THEN begin("cleanupParentProxy")
                 ELSE Return(w, req, NoError, NoError, <<>>)
    /\ UNCHANGED <<store, edits, probe>>

\* Reconcile with a fault: without the test of lines 63-65, so that a
\* subject that is not in the store is an error like any other
ReconcileStaleIsError(w, req) ==
    /\ worker[w].pc = "idle"
    /\ First(w)
    /\ ~Busy(req)
    /\ \E answer \in Answers :
        LET httpProxy == Get(req)
            begin(pc) ==
                /\ worker' = [worker EXCEPT ![w] =
                                 [pc |-> pc, req |-> req, httpProxy |-> httpProxy,
                                  parentProxy |-> NoObject, issued |-> <<>>]]
                /\ returned' = NoReturn
        IN  IF answer # NoError THEN Return(w, req, answer, NoError, <<>>)
            ELSE IF httpProxy = NoObject THEN Return(w, req, ErrNotFound, NoError, <<>>)
            ELSE IF AnnotationOf(httpProxy, parentRefAnnotation) = EmptyString
            THEN Return(w, req, NoError, NoError, <<>>)
            ELSE IF ~httpProxy.Deleting
            THEN IF ~hasFinalizer(httpProxy, finalizerName)
                 THEN begin("addFinalizer")
                 ELSE begin("reconcileParentProxy")
            ELSE IF hasFinalizer(httpProxy, finalizerName)
                 THEN begin("cleanupParentProxy")
                 ELSE Return(w, req, NoError, NoError, <<>>)
    /\ UNCHANGED <<store, edits, probe>>

\* Reconcile with a fault: without the test of the DeletionTimestamp at
\* line 73, so that every managed resource goes the way of lines 74-79
ReconcileIgnoreDeletion(w, req) ==
    /\ worker[w].pc = "idle"
    /\ First(w)
    /\ ~Busy(req)
    /\ \E answer \in Answers :
        LET httpProxy == Get(req)
            begin(pc) ==
                /\ worker' = [worker EXCEPT ![w] =
                                 [pc |-> pc, req |-> req, httpProxy |-> httpProxy,
                                  parentProxy |-> NoObject, issued |-> <<>>]]
                /\ returned' = NoReturn
        IN  IF answer # NoError THEN Return(w, req, answer, NoError, <<>>)
            ELSE IF httpProxy = NoObject THEN Return(w, req, NoError, NoError, <<>>)
            ELSE IF AnnotationOf(httpProxy, parentRefAnnotation) = EmptyString
            THEN Return(w, req, NoError, NoError, <<>>)
            ELSE IF ~hasFinalizer(httpProxy, finalizerName)
                 THEN begin("addFinalizer")
                 ELSE begin("reconcileParentProxy")
    /\ UNCHANGED <<store, edits, probe>>

\* Reconcile with a fault: a resource that declares no parent, is being
\* deleted and has the finalizer is not left alone at lines 70-72, its
\* finalizer is removed
ReconcileDetachUnmanaged(w, req) ==
    /\ worker[w].pc = "idle"
    /\ First(w)
    /\ ~Busy(req)
    /\ \E answer \in Answers :
        LET httpProxy == Get(req)
            begin(pc) ==
                /\ worker' = [worker EXCEPT ![w] =
                                 [pc |-> pc, req |-> req, httpProxy |-> httpProxy,
                                  parentProxy |-> NoObject, issued |-> <<>>]]
                /\ returned' = NoReturn
        IN  IF answer # NoError THEN Return(w, req, answer, NoError, <<>>)
            ELSE IF httpProxy = NoObject THEN Return(w, req, NoError, NoError, <<>>)
            ELSE IF AnnotationOf(httpProxy, parentRefAnnotation) = EmptyString
            THEN IF httpProxy.Deleting /\ hasFinalizer(httpProxy, finalizerName)
                 THEN begin("removeFinalizer")
                 ELSE Return(w, req, NoError, NoError, <<>>)
            ELSE IF ~httpProxy.Deleting
            THEN IF ~hasFinalizer(httpProxy, finalizerName)
                 THEN begin("addFinalizer")
                 ELSE begin("reconcileParentProxy")
            ELSE IF hasFinalizer(httpProxy, finalizerName)
                 THEN begin("cleanupParentProxy")
                 ELSE Return(w, req, NoError, NoError, <<>>)
    /\ UNCHANGED <<store, edits, probe>>

\* Reconcile, lines 54-91, up to its second call on the store
Reconcile(w, req) ==
    /\ worker[w].pc = "idle"
    /\ First(w)
    /\ ~Busy(req)
    /\ \E answer \in Answers :
        LET httpProxy == Get(req)
            begin(pc) ==
                /\ worker' = [worker EXCEPT ![w] =
                                 [pc |-> pc, req |-> req, httpProxy |-> httpProxy,
                                  parentProxy |-> NoObject, issued |-> <<>>]]
                /\ returned' = NoReturn
        IN  IF answer # NoError THEN Return(w, req, answer, NoError, <<>>)
            ELSE IF httpProxy = NoObject THEN Return(w, req, NoError, NoError, <<>>)
            ELSE IF AnnotationOf(httpProxy, parentRefAnnotation) = EmptyString
            THEN Return(w, req, NoError, NoError, <<>>)
            ELSE IF ~httpProxy.Deleting
            THEN IF ~hasFinalizer(httpProxy, finalizerName)
                 THEN begin("addFinalizer")
                 ELSE begin("reconcileParentProxy")
            ELSE IF hasFinalizer(httpProxy, finalizerName)
                 THEN begin("cleanupParentProxy")
                 ELSE Return(w, req, NoError, NoError, <<>>)
    /\ UNCHANGED <<store, edits, probe>>

\* The update that adds the finalizer with a fault: the error of the
\* update dropped, so that Reconcile goes on to the merge
AddFinalizerIgnoreError(w) ==
    /\ worker[w].pc = "addFinalizer"
    /\ \E answer \in Answers :
        LET httpProxy == [worker[w].httpProxy EXCEPT !.Finalizers = @ \cup {finalizerName}]
            key == ObjectKey(httpProxy.Namespace, httpProxy.Name)
            issued == Append(worker[w].issued, key)
            err == IF answer # NoError THEN answer ELSE UpdateError(httpProxy)
        IN  IF err # NoError
            THEN /\ Continue(w, "reconcileParentProxy", httpProxy, NoObject, issued)
                 /\ UNCHANGED store
            ELSE /\ store' = Updated(httpProxy)
                 /\ Continue(w, "reconcileParentProxy", Updated(httpProxy)[key],
                                  NoObject, issued)
    /\ UNCHANGED <<edits, probe>>

\* Reconcile, lines 75-78: the update that adds the finalizer
AddFinalizer(w) ==
    /\ worker[w].pc = "addFinalizer"
    /\ \E answer \in Answers :
        LET httpProxy == [worker[w].httpProxy EXCEPT !.Finalizers = @ \cup {finalizerName}]
            key == ObjectKey(httpProxy.Namespace, httpProxy.Name)
            issued == Append(worker[w].issued, key)
            err == IF answer # NoError THEN answer ELSE UpdateError(httpProxy)
        IN  IF err # NoError
            THEN /\ Return(w, worker[w].req, err, NoError, issued)
                 /\ UNCHANGED store
            ELSE /\ store' = Updated(httpProxy)
                 /\ Continue(w, "reconcileParentProxy", Updated(httpProxy)[key],
                                  NoObject, issued)
    /\ UNCHANGED <<edits, probe>>

\* reconcileParentProxy with a fault: a parent that is not in the store is
\* created with the entry of the child
ReconcileGetParentOrCreate(w) ==
    /\ worker[w].pc = "reconcileParentProxy"
    /\ \E answer \in Answers :
        LET childProxy == worker[w].httpProxy
            parentRef == AnnotationOf(childProxy, parentRefAnnotation)
            got == getParentProxy(parentRef)
            err == IF got.err = ErrInvalidParent \/ answer = NoError
                   THEN got.err ELSE answer
            merged == merge(got.parent, childProxy)
            created == HTTPProxy(Split(parentRef)[1], Split(parentRef)[2], NoAnnotations,
                                 withInclude(<<>>, childProxy, prefixOf(childProxy)))
        IN  IF err = ErrNotFound
            THEN /\ store' = [store EXCEPT ![ObjectKey(created.Namespace, created.Name)] =
                                  created]
                 /\ Return(w, worker[w].req, NoError, NoError, worker[w].issued)
            ELSE /\ UNCHANGED store
                 /\ IF err # NoError
                    THEN Return(w, worker[w].req, err, err, worker[w].issued)
                    ELSE IF merged.stop
                    THEN Return(w, worker[w].req, NoError, merged.err, worker[w].issued)
                    ELSE Continue(w, "updateParent", childProxy,
                                       [got.parent EXCEPT !.Includes = merged.Includes],
                                       worker[w].issued)
    /\ UNCHANGED <<edits, probe>>

\* reconcileParentProxy with a fault: the errors of getParentProxy returned
\* with stop = true, as the errors of the merge are
ReconcileGetParentStop(w) ==
    /\ worker[w].pc = "reconcileParentProxy"
    /\ \E answer \in Answers :
        LET childProxy == worker[w].httpProxy
            got == getParentProxy(AnnotationOf(childProxy, parentRefAnnotation))
            err == IF got.err = ErrInvalidParent \/ answer = NoError
                   THEN got.err ELSE answer
            merged == merge(got.parent, childProxy)
        IN  IF err # NoError
            THEN Return(w, worker[w].req, NoError, err, worker[w].issued)
            ELSE IF merged.stop
            THEN Return(w, worker[w].req, NoError, merged.err, worker[w].issued)
            ELSE Continue(w, "updateParent", childProxy,
                               [got.parent EXCEPT !.Includes = merged.Includes],
                               worker[w].issued)
    /\ UNCHANGED <<store, edits, probe>>

\* reconcileParentProxy with a fault: without the return of lines 97-99, so
\* that Reconcile returns the errors of the merge
ReconcileGetParentNoStop(w) ==
    /\ worker[w].pc = "reconcileParentProxy"
    /\ \E answer \in Answers :
        LET childProxy == worker[w].httpProxy
            got == getParentProxy(AnnotationOf(childProxy, parentRefAnnotation))
            err == IF got.err = ErrInvalidParent \/ answer = NoError
                   THEN got.err ELSE answer
            merged == merge(got.parent, childProxy)
        IN  IF err # NoError
            THEN Return(w, worker[w].req, err, err, worker[w].issued)
            ELSE IF merged.stop
            THEN Return(w, worker[w].req, merged.err, merged.err, worker[w].issued)
            ELSE Continue(w, "updateParent", childProxy,
                               [got.parent EXCEPT !.Includes = merged.Includes],
                               worker[w].issued)
    /\ UNCHANGED <<store, edits, probe>>

\* reconcileParentProxy, lines 176-209, and lines 93-101 of Reconcile for
\* the returns before the write
ReconcileGetParent(w) ==
    /\ worker[w].pc = "reconcileParentProxy"
    /\ \E answer \in Answers :
        LET childProxy == worker[w].httpProxy
            got == getParentProxy(AnnotationOf(childProxy, parentRefAnnotation))
            err == IF got.err = ErrInvalidParent \/ answer = NoError
                   THEN got.err ELSE answer
            merged == merge(got.parent, childProxy)
        IN  IF err # NoError
            THEN Return(w, worker[w].req, err, err, worker[w].issued)
            ELSE IF merged.stop
            THEN Return(w, worker[w].req, NoError, merged.err, worker[w].issued)
            ELSE Continue(w, "updateParent", childProxy,
                               [got.parent EXCEPT !.Includes = merged.Includes],
                               worker[w].issued)
    /\ UNCHANGED <<store, edits, probe>>

\* reconcileParentProxy, lines 210-217, and lines 93-101 of Reconcile
ReconcileUpdateParent(w) ==
    /\ worker[w].pc = "updateParent"
    /\ \E answer \in Answers :
        LET parentProxy == worker[w].parentProxy
            issued == Append(worker[w].issued,
                             ObjectKey(parentProxy.Namespace, parentProxy.Name))
            err == IF answer # NoError THEN answer ELSE UpdateError(parentProxy)
        IN  /\ Return(w, worker[w].req, err, err, issued)
            /\ store' = IF err # NoError THEN store ELSE Updated(parentProxy)
    /\ UNCHANGED <<edits, probe>>

\* cleanupParentProxy with a fault: the errors before the write dropped,
\* so that Reconcile goes on to remove the finalizer
CleanupGetParentIgnoreError(w) ==
    /\ worker[w].pc = "cleanupParentProxy"
    /\ \E answer \in Answers :
        LET childProxy == worker[w].httpProxy
            got == getParentProxy(AnnotationOf(childProxy, parentRefAnnotation))
            err == IF got.err = ErrInvalidParent \/ answer = NoError
                   THEN got.err ELSE answer
            removed == remove(got.parent, childProxy)
        IN  IF err # NoError
            THEN Continue(w, "removeFinalizer", childProxy, NoObject, worker[w].issued)
            ELSE IF removed.err # NoError
            THEN Continue(w, "removeFinalizer", childProxy, got.parent, worker[w].issued)
            ELSE Continue(w, IF removed.write THEN "cleanupUpdateParent"
                                  ELSE "removeFinalizer",
                               childProxy,
                               [got.parent EXCEPT !.Includes = removed.Includes],
                               worker[w].issued)
    /\ UNCHANGED <<store, edits, probe>>

\* cleanupParentProxy, lines 150-165, and lines 82-84 of Reconcile for the
\* returns before the write
CleanupGetParent(w) ==
    /\ worker[w].pc = "cleanupParentProxy"
    /\ \E answer \in Answers :
        LET childProxy == worker[w].httpProxy
            got == getParentProxy(AnnotationOf(childProxy, parentRefAnnotation))
            err == IF got.err = ErrInvalidParent \/ answer = NoError
                   THEN got.err ELSE answer
            removed == remove(got.parent, childProxy)
        IN  IF err # NoError
            THEN Return(w, worker[w].req, err, NoError, worker[w].issued)
            ELSE IF removed.err # NoError
            THEN Return(w, worker[w].req, removed.err, NoError, worker[w].issued)
            ELSE Continue(w, IF removed.write THEN "cleanupUpdateParent"
                                  ELSE "removeFinalizer",
                               childProxy,
                               [got.parent EXCEPT !.Includes = removed.Includes],
                               worker[w].issued)
    /\ UNCHANGED <<store, edits, probe>>

\* cleanupParentProxy with a fault: the error of the update of the parent
\* dropped, so that Reconcile goes on to remove the finalizer
CleanupUpdateParentIgnoreError(w) ==
    /\ worker[w].pc = "cleanupUpdateParent"
    /\ \E answer \in Answers :
        LET parentProxy == worker[w].parentProxy
            issued == Append(worker[w].issued,
                             ObjectKey(parentProxy.Namespace, parentProxy.Name))
            err == IF answer # NoError THEN answer ELSE UpdateError(parentProxy)
        IN  /\ store' = IF err # NoError THEN store ELSE Updated(parentProxy)
            /\ Continue(w, "removeFinalizer", worker[w].httpProxy, parentProxy, issued)
    /\ UNCHANGED <<edits, probe>>

\* cleanupParentProxy, lines 166-173, and lines 82-84 of Reconcile
CleanupUpdateParent(w) ==
    /\ worker[w].pc = "cleanupUpdateParent"
    /\ \E answer \in Answers :
        LET parentProxy == worker[w].parentProxy
            issued == Append(worker[w].issued,
                             ObjectKey(parentProxy.Namespace, parentProxy.Name))
            err == IF answer # NoError THEN answer ELSE UpdateError(parentProxy)
        IN  IF err # NoError
            THEN /\ Return(w, worker[w].req, err, NoError, issued)
                 /\ UNCHANGED store
            ELSE /\ store' = Updated(parentProxy)
                 /\ Continue(w, "removeFinalizer", worker[w].httpProxy,
                                  parentProxy, issued)
    /\ UNCHANGED <<edits, probe>>

\* The update that removes the finalizer with a fault: every finalizer of
\* the child removed, not the one of the controller alone
RemoveFinalizerAll(w) ==
    /\ worker[w].pc = "removeFinalizer"
    /\ \E answer \in Answers :
        LET httpProxy == [worker[w].httpProxy EXCEPT !.Finalizers = {}]
            issued == Append(worker[w].issued,
                             ObjectKey(httpProxy.Namespace, httpProxy.Name))
            err == IF answer # NoError THEN answer ELSE UpdateError(httpProxy)
        IN  /\ Return(w, worker[w].req, err, NoError, issued)
            /\ store' = IF err # NoError THEN store ELSE Updated(httpProxy)
    /\ UNCHANGED <<edits, probe>>

\* Reconcile, lines 85-90: the update that removes the finalizer
RemoveFinalizer(w) ==
    /\ worker[w].pc = "removeFinalizer"
    /\ \E answer \in Answers :
        LET httpProxy == [worker[w].httpProxy EXCEPT !.Finalizers = @ \ {finalizerName}]
            issued == Append(worker[w].issued,
                             ObjectKey(httpProxy.Namespace, httpProxy.Name))
            err == IF answer # NoError THEN answer ELSE UpdateError(httpProxy)
        IN  /\ Return(w, worker[w].req, err, NoError, issued)
            /\ store' = IF err # NoError THEN store ELSE Updated(httpProxy)
    /\ UNCHANGED <<edits, probe>>

----------------------------------------------------------------------------
(* The users of the store *)

PrefixHoge == <<Slash, "hoge">>
PrefixNew == <<Slash, "new">>
PrefixBlog == <<Slash, "blog">>
PrefixOld == <<Slash, "old">>

\* the annotation values users write
Edits ==
    ({ParentKey} \X {allowInclusionAnnotation} \X {StrTrue, <<"false">>})
    \cup (ChildKeys \X {pathPrefixAnnotation} \X {EmptyString, PrefixNew})

\* a user sets an annotation of an object
UserSetAnnotation(key, annotation, value) ==
    /\ edits < MaxEdits
    /\ store[key] # NoObject
    /\ ~(annotation \in DOMAIN store[key].Annotations
         /\ store[key].Annotations[annotation] = value)
    /\ store' = [store EXCEPT ![key] =
                    [@ EXCEPT !.Annotations = WithAnnotation(@, annotation, value),
                              !.ResourceVersion = @ + 1]]
    /\ edits' = edits + 1
    /\ UNCHANGED <<worker, returned, probe>>

\* a user removes an annotation of an object
UserRemoveAnnotation(key, annotation) ==
    /\ edits < MaxEdits
    /\ store[key] # NoObject
    /\ annotation \in DOMAIN store[key].Annotations
    /\ store' = [store EXCEPT ![key] =
                    [@ EXCEPT !.Annotations = WithoutAnnotation(@, annotation),
                              !.ResourceVersion = @ + 1]]
    /\ edits' = edits + 1
    /\ UNCHANGED <<worker, returned, probe>>

\* a user deletes a child: the store erases it at once when it has no
\* finalizer, and marks it as being deleted otherwise
UserDelete(key) ==
    /\ store[key] # NoObject
    /\ ~store[key].Deleting
    /\ store' = [store EXCEPT ![key] =
                    IF @.Finalizers = {} THEN NoObject
                    ELSE [@ EXCEPT !.Deleting = TRUE, !.ResourceVersion = @ + 1]]
    /\ UNCHANGED <<worker, returned, edits, probe>>

----------------------------------------------------------------------------
(* The initial states *)

NoProbe == [on |-> FALSE]

\* the include lists the parent is created with: none of them has two
\* entries of one child, or one prefix under two children
InitIncludes ==
    { <<>>,
      <<Include(HogeKey.Namespace, HogeKey.Name, <<PrefixHoge, PrefixNew>>)>>,
      <<Include(BlogKey.Namespace, BlogKey.Name, <<PrefixOld>>),
        Include(HogeKey.Namespace, HogeKey.Name, <<PrefixBlog>>)>> }

\* parentProxyFromTemplate and childProxyFromTemplate of the tests
InitParents ==
    { HTTPProxy(ParentKey.Namespace, ParentKey.Name, annotations, includes) :
        annotations \in {NoAnnotations,
                         WithAnnotation(NoAnnotations, allowInclusionAnnotation, StrTrue)},
        includes \in InitIncludes }

InitChildren(key, parentRefs, prefixes) ==
    { HTTPProxy(key.Namespace, key.Name, annotations, <<>>) :
        annotations \in
            { WithAnnotation(NoAnnotations, parentRefAnnotation, ref) : ref \in parentRefs }
            \cup { WithAnnotation(WithAnnotation(NoAnnotations, parentRefAnnotation, ref),
                                  pathPrefixAnnotation, prefix) :
                       ref \in parentRefs, prefix \in prefixes } }

\* the parents sales-team/sales is created with: the parent of the tests,
\* a parent that does not exist, or an empty annotation
SalesParentRefs == {RefTo(ParentKey), RefTo(MissingKey), EmptyString}

Init ==
    /\ store \in [Keys -> InitParents \cup {NoObject}
                          \cup InitChildren(BlogKey, {RefTo(ParentKey)}, {})
                          \cup InitChildren(SalesKey, SalesParentRefs, {PrefixBlog})]
    /\ store[ParentKey] \in InitParents
    /\ store[MissingKey] = NoObject
    /\ store[OtherKey] = NoObject
    /\ store[BlogKey] \in InitChildren(BlogKey, {RefTo(ParentKey)}, {})
    /\ store[SalesKey] \in InitChildren(SalesKey, SalesParentRefs, {PrefixBlog})
    /\ worker = [w \in Workers |-> Idle]
    /\ returned = NoReturn
    /\ edits = 0
    /\ probe = NoProbe

\* the keys the watch delivers
Requests == ChildKeys \cup {ParentKey}

\* the steps of one worker
Step(w) ==
    \/ \E req \in Requests : Reconcile(w, req)
    \/ AddFinalizer(w)
    \/ ReconcileGetParent(w)
    \/ ReconcileUpdateParent(w)
    \/ CleanupGetParent(w)
    \/ CleanupUpdateParent(w)
    \/ RemoveFinalizer(w)

\* the edits of the users
User ==
    \/ \E e \in Edits : UserSetAnnotation(e[1], e[2], e[3])
    \/ \E key \in ChildKeys : UserRemoveAnnotation(key, pathPrefixAnnotation)
    \/ \E key \in ChildKeys : UserDelete(key)

\* One worker, as SetupWithManager sets the controller up (lines 221-225:
\* no MaxConcurrentReconciles), and the users.
Next ==
    \/ Step("w1")
    \/ User

Spec == Init /\ [][Next]_vars

\* Two workers (MaxConcurrentReconciles = 2): their steps interleave, and a
\* write of either is rejected when the object changed since it was read.
NextConcurrent ==
    \/ \E w \in Workers : Step(w)
    \/ \E key \in ChildKeys : UserSetAnnotation(key, pathPrefixAnnotation, PrefixNew)
    \/ \E key \in ChildKeys : UserDelete(key)

\* a parent that permits inclusion and two children that declare it
InitConcurrent ==
    /\ Init
    /\ AnnotationOf(store[ParentKey], allowInclusionAnnotation) = StrTrue
    /\ AnnotationOf(store[SalesKey], parentRefAnnotation) = RefTo(ParentKey)
    /\ Len(store[ParentKey].Includes) # 1

SpecConcurrent == InitConcurrent /\ [][NextConcurrent]_vars

----------------------------------------------------------------------------
(* The merge on its own: applied to an include list, and applied again to  *)
(* the list it returned                                                    *)

ProbePrefixes == {<<>>, <<PrefixBlog>>, <<PrefixNew>>, <<PrefixBlog, PrefixNew>>}

ProbeIncludes ==
    { Include(key.Namespace, key.Name, prefixes) :
        key \in {BlogKey, SalesKey, HogeKey}, prefixes \in ProbePrefixes }

\* every include list of at most MaxProbeLen entries
ProbeLists == UNION { [1..n -> ProbeIncludes] : n \in 0..MaxProbeLen }

ProbeParents ==
    { HTTPProxy(ParentKey.Namespace, ParentKey.Name, annotations, includes) :
        annotations \in {NoAnnotations,
                         WithAnnotation(NoAnnotations, allowInclusionAnnotation, StrTrue)},
        includes \in ProbeLists }

ProbeChildren ==
    UNION { InitChildren(key, {RefTo(ParentKey)}, {EmptyString, PrefixBlog, PrefixNew}) :
              key \in ChildKeys }

InitMerge ==
    /\ store = [key \in Keys |-> NoObject]
    /\ worker = [w \in Workers |-> Idle]
    /\ returned = NoReturn
    /\ edits = 0
    /\ probe \in [on : {TRUE}, parentProxy : ProbeParents, childProxy : ProbeChildren,
                  outs : {<<>>}]

\* lines 182-209 run on the list the last run returned, at most twice; a
\* run that returned an error is not repeated
ApplyMerge ==
    /\ probe.on
    /\ Len(probe.outs) < 2
    /\ probe.outs # <<>> => ~probe.outs[Len(probe.outs)].stop
    /\ LET includes == IF probe.outs = <<>> THEN probe.parentProxy.Includes
                       ELSE probe.outs[Len(probe.outs)].Includes
           out == merge([probe.parentProxy EXCEPT !.Includes = includes],
                        probe.childProxy)
       IN  probe' = [probe EXCEPT !.outs = Append(@, out)]
    /\ UNCHANGED <<store, worker, returned, edits>>

SpecMerge == InitMerge /\ [][ApplyMerge]_vars

----------------------------------------------------------------------------
(* The parent annotation of a child: well-formed or not, and changed or    *)
(* removed by a user while the child is reconciled                         *)

\* values of the annotation that strings.Split cuts into one segment, into
\* three, and into two of which the first or the second is empty
OnlyName == <<"example">>
ThreeSegments == <<"root", Slash, "example", Slash, "x">>
NoNamespace == <<Slash, "example">>
NoName == <<"root", Slash>>

RefValues ==
    {RefTo(ParentKey), RefTo(OtherKey), OnlyName, ThreeSegments, NoNamespace, NoName}

\* the parent root/other, which permits inclusion and includes no child
OtherParent ==
    HTTPProxy(OtherKey.Namespace, OtherKey.Name,
              WithAnnotation(NoAnnotations, allowInclusionAnnotation, StrTrue), <<>>)

\* two parents that permit inclusion, and sales-team/sales with any of the
\* values as its parent annotation
InitRefs ==
    /\ store \in [Keys -> InitParents \cup {NoObject, OtherParent}
                          \cup InitChildren(BlogKey, {RefTo(ParentKey)}, {})
                          \cup InitChildren(SalesKey, RefValues, {})]
    /\ store[ParentKey] \in InitParents
    /\ AnnotationOf(store[ParentKey], allowInclusionAnnotation) = StrTrue
    /\ store[OtherKey] = OtherParent
    /\ store[MissingKey] = NoObject
    /\ store[BlogKey] \in InitChildren(BlogKey, {RefTo(ParentKey)}, {})
    /\ store[SalesKey] \in InitChildren(SalesKey, RefValues, {})
    /\ worker = [w \in Workers |-> Idle]
    /\ returned = NoReturn
    /\ edits = 0
    /\ probe = NoProbe

\* the worker, and the users who change or remove the parent annotation of
\* sales-team/sales and who delete the children
NextRefs ==
    \/ Step("w1")
    \/ \E ref \in RefValues : UserSetAnnotation(SalesKey, parentRefAnnotation, ref)
    \/ UserRemoveAnnotation(SalesKey, parentRefAnnotation)
    \/ \E key \in ChildKeys : UserDelete(key)

SpecRefs == InitRefs /\ [][NextRefs]_vars

----------------------------------------------------------------------------
(* A child with a finalizer of another controller.  hasFinalizer, and      *)
(* AddFinalizer and RemoveFinalizer of controllerutil, look for the        *)
(* controller's own name in the list and leave the other names alone.      *)

OtherFinalizer == "example.com/finalizer"

\* the children of Init, blog-team/blog with the finalizer of another
\* controller
InitForeign ==
    /\ store \in [Keys -> InitParents \cup {NoObject}
                          \cup { [c EXCEPT !.Finalizers = {OtherFinalizer}] :
                                  c \in InitChildren(BlogKey, {RefTo(ParentKey)}, {}) }
                          \cup InitChildren(SalesKey, SalesParentRefs, {PrefixBlog})]
    /\ store[ParentKey] \in InitParents
    /\ store[MissingKey] = NoObject
    /\ store[OtherKey] = NoObject
    /\ store[BlogKey] # NoObject
    /\ KeyOf(store[BlogKey]) = BlogKey
    /\ store[SalesKey] \in InitChildren(SalesKey, SalesParentRefs, {PrefixBlog})
    /\ worker = [w \in Workers |-> Idle]
    /\ returned = NoReturn
    /\ edits = 0
    /\ probe = NoProbe

SpecForeign == InitForeign /\ [][Next]_vars

----------------------------------------------------------------------------
(* The retry of a cleanup.  The first Reconcile of sales-team/sales after  *)
(* its deletion has run: the store accepted the update of the parent that  *)
(* removed the entry of the child (cleanupParentProxy, lines 164-171), and *)
(* the update that removes the finalizer failed (Reconcile, lines 86-88).  *)
(* The child is still in the store, being deleted, with the finalizer, and *)
(* every Reconcile of it from here on is a retry of that cleanup.  The     *)
(* parent is one whose list the merge had accepted the child into.         *)

\* the object after updates that changed it
AtVersion(obj, version) == [obj EXCEPT !.ResourceVersion = version]

InitRetry ==
    /\ store \in [Keys -> {NoObject}
                          \cup { AtVersion(p, 3) : p \in InitParents }
                          \cup InitChildren(BlogKey, {RefTo(ParentKey)}, {})
                          \cup { AtVersion([c EXCEPT !.Finalizers = {finalizerName},
                                                     !.Deleting = TRUE], 3) :
                                  c \in InitChildren(SalesKey, {RefTo(ParentKey)},
                                                     {PrefixBlog}) }]
    /\ store[ParentKey] # NoObject
    /\ KeyOf(store[ParentKey]) = ParentKey
    /\ AnnotationOf(store[ParentKey], allowInclusionAnnotation) = StrTrue
    /\ store[MissingKey] = NoObject
    /\ store[OtherKey] = NoObject
    /\ store[BlogKey] \in InitChildren(BlogKey, {RefTo(ParentKey)}, {})
    /\ store[SalesKey] # NoObject
    /\ KeyOf(store[SalesKey]) = SalesKey
    /\ merge(store[ParentKey], store[SalesKey]).err = NoError
    /\ worker = [w \in Workers |-> Idle]
    /\ returned = [req |-> SalesKey, err |-> ErrUnavailable, logged |-> NoError,
                   issued |-> <<ParentKey, SalesKey>>]
    /\ edits = 0
    /\ probe = NoProbe

SpecRetry == InitRetry /\ [][Next]_vars

----------------------------------------------------------------------------
(* Vocabulary of the properties *)

PrefixesOf(include) ==
    {include.Conditions[c].Prefix : c \in 1..Len(include.Conditions)}

\* the positions of the entries of child key in an include list
EntriesOf(includes, key) ==
    {i \in 1..Len(includes) : KeyOf(includes[i]) = key}

\* some entry of another child than key has the prefix
HeldByOther(includes, key, prefix) ==
    \E i \in 1..Len(includes) :
        KeyOf(includes[i]) # key /\ prefix \in PrefixesOf(includes[i])

\* the entries of the children other than key, in their order
OthersOf(includes, key) ==
    LET other(include) == KeyOf(include) # key
    IN  SelectSeq(includes, other)

\* the prefix a child asks for, read off its annotations
DesiredPrefix(childProxy) ==
    IF pathPrefixAnnotation \in DOMAIN childProxy.Annotations
       /\ childProxy.Annotations[pathPrefixAnnotation] # EmptyString
    THEN childProxy.Annotations[pathPrefixAnnotation]
    ELSE <<Slash>> \o childProxy.Name

Permits(parentProxy) ==
    /\ allowInclusionAnnotation \in DOMAIN parentProxy.Annotations
    /\ parentProxy.Annotations[allowInclusionAnnotation] = StrTrue

\* worker w takes the step it is at, from pc
Takes(w, pc) == worker[w].pc = pc /\ worker'[w] # worker[w]

\* the store served the call of the step that w takes
Served(w) == ~(worker'[w].pc = "idle" /\ returned'.err = ErrUnavailable)

\* w is at pc with a child that declares the parent root/example, which exists
AtWithParent(w, pc) ==
    /\ worker[w].pc = pc
    /\ AnnotationOf(worker[w].httpProxy, parentRefAnnotation) = RefTo(ParentKey)
    /\ store[ParentKey] # NoObject

\* Reconcile of child key returned nil after the store accepted its update
\* of the parent
Reconciled(key) ==
    /\ returned.req = key
    /\ returned.err = NoError
    /\ returned.logged = NoError
    /\ \E i \in 1..Len(returned.issued) : returned.issued[i] = ParentKey
    /\ store[ParentKey] # NoObject

----------------------------------------------------------------------------
(* C1 - Prefix uniqueness (I2).  In every state reached by two workers     *)
(* whose invocations of Reconcile interleave step by step, over a store    *)
(* that rejects an update read at a stale resource version, no include     *)
(* list has entries of two different children with a prefix in common.     *)
C1_PrefixUniqueness ==
    \A key \in Keys :
        store[key] # NoObject =>
            \A i, j \in 1..Len(store[key].Includes) :
                KeyOf(store[key].Includes[i]) # KeyOf(store[key].Includes[j])
                    => PrefixesOf(store[key].Includes[i])
                           \cap PrefixesOf(store[key].Includes[j]) = {}

\* Two children asked for the same prefix at the same time: one is in the
\* parent with it, the update of the other was rejected as a conflict.
C1_Witness ==
    /\ returned.err = ErrConflict
    /\ returned.req \in ChildKeys
    /\ returned.issued # <<>>
    /\ returned.issued[Len(returned.issued)] = ParentKey
    /\ store[returned.req] # NoObject
    /\ store[ParentKey] # NoObject
    /\ EntriesOf(store[ParentKey].Includes, returned.req) = {}
    /\ \E i \in 1..Len(store[ParentKey].Includes) :
           /\ KeyOf(store[ParentKey].Includes[i]) \in ChildKeys \ {returned.req}
           /\ DesiredPrefix(store[returned.req]) \in PrefixesOf(store[ParentKey].Includes[i])

(* C2 - Entry uniqueness (I1).  In every state no include list has two     *)
(* entries of the same (namespace, name).                                  *)
C2_EntryUniqueness ==
    \A key \in Keys :
        store[key] # NoObject =>
            \A i, j \in 1..Len(store[key].Includes) :
                KeyOf(store[key].Includes[i]) = KeyOf(store[key].Includes[j]) => i = j

\* A child that already had an entry was reconciled again after its prefix
\* changed, and the parent holds the one entry of it.
C2_Witness ==
    /\ Reconciled(BlogKey)
    /\ edits > 0
    /\ Len(store[ParentKey].Includes) = 2
    /\ Cardinality(EntriesOf(store[ParentKey].Includes, BlogKey)) = 1

(* C3 as the specification states it - Duplicate prevention.  Whenever     *)
(* reconcileParentProxy reads a parent in which another child holds the    *)
(* prefix the child asks for, it reports the duplicate-prefix error,       *)
(* issues no update of the parent and leaves the store as it was.          *)
C3_AsStated ==
    [][\A w \in Workers :
          ( /\ AtWithParent(w, "reconcileParentProxy")
            /\ Takes(w, "reconcileParentProxy")
            /\ Served(w)
            /\ HeldByOther(store[ParentKey].Includes,
                           ObjectKey(worker[w].httpProxy.Namespace,
                                     worker[w].httpProxy.Name),
                           DesiredPrefix(worker[w].httpProxy)) )
          => ( /\ worker'[w].pc = "idle"
               /\ returned'.logged = ErrDuplicatePrefix
               /\ \A i \in 1..Len(returned'.issued) : returned'.issued[i] # ParentKey
               /\ store' = store )]_vars

(* C3 - Duplicate prevention, in a parent that permits inclusion.          *)
(* Whenever reconcileParentProxy reads a parent that permits inclusion and *)
(* in which another child holds the prefix the child asks for, it reports  *)
(* the duplicate-prefix error, issues no update of the parent and leaves   *)
(* the store as it was.                                                    *)
C3_DuplicatePrevention ==
    [][\A w \in Workers :
          ( /\ AtWithParent(w, "reconcileParentProxy")
            /\ Takes(w, "reconcileParentProxy")
            /\ Served(w)
            /\ Permits(store[ParentKey])
            /\ HeldByOther(store[ParentKey].Includes,
                           ObjectKey(worker[w].httpProxy.Namespace,
                                     worker[w].httpProxy.Name),
                           DesiredPrefix(worker[w].httpProxy)) )
          => ( /\ worker'[w].pc = "idle"
               /\ returned'.logged = ErrDuplicatePrefix
               /\ returned'.err = NoError
               /\ \A i \in 1..Len(returned'.issued) : returned'.issued[i] # ParentKey
               /\ store' = store )]_vars

\* Reconcile of sales-team/sales reported the duplicate: hoge/hoge holds
\* the prefix it asks for, and it has no entry.
C3_Witness ==
    /\ returned.req = SalesKey
    /\ returned.logged = ErrDuplicatePrefix
    /\ store[SalesKey] # NoObject
    /\ Permits(store[ParentKey])
    /\ HeldByOther(store[ParentKey].Includes, SalesKey, DesiredPrefix(store[SalesKey]))
    /\ EntriesOf(store[ParentKey].Includes, SalesKey) = {}
    /\ EntriesOf(store[ParentKey].Includes, HogeKey) # {}

(* C4 - Inclusion permission.  Whenever reconcileParentProxy reads a       *)
(* parent whose allow-inclusion annotation is absent or is not "true", it  *)
(* reports inclusion-not-permitted, also when another child holds the      *)
(* prefix, issues no update of the parent and leaves the store as it was;  *)
(* and it reports that error for no parent whose annotation is "true".     *)
C4_InclusionPermission ==
    [][\A w \in Workers :
          ( /\ AtWithParent(w, "reconcileParentProxy")
            /\ Takes(w, "reconcileParentProxy")
            /\ Served(w) )
          => IF Permits(store[ParentKey])
             THEN ~(worker'[w].pc = "idle" /\ returned'.logged = ErrNotAllowed)
             ELSE /\ worker'[w].pc = "idle"
                  /\ returned'.logged = ErrNotAllowed
                  /\ \A i \in 1..Len(returned'.issued) : returned'.issued[i] # ParentKey
                  /\ store' = store]_vars

\* Inclusion was refused by a parent annotated "false", in which another
\* child holds the prefix the child asks for.
C4_Witness ==
    /\ returned.req = SalesKey
    /\ returned.logged = ErrNotAllowed
    /\ store[SalesKey] # NoObject
    /\ AnnotationOf(store[ParentKey], allowInclusionAnnotation) = <<"false">>
    /\ HeldByOther(store[ParentKey].Includes, SalesKey, DesiredPrefix(store[SalesKey]))

(* C5 - No cross-child overwrite.  No step of a Reconcile of child A       *)
(* changes, in any include list, the entries of the children other than A  *)
(* or their order.                                                         *)
C5_NoCrossChildOverwrite ==
    [][\A w \in Workers :
          worker'[w] # worker[w] =>
              \A key \in Keys :
                  (store[key] # NoObject /\ store'[key] # NoObject) =>
                      OthersOf(store'[key].Includes, worker[w].req)
                          = OthersOf(store[key].Includes, worker[w].req)]_vars

\* The cleanup of blog-team/blog took its entry out of a list that holds an
\* entry of hoge/hoge behind it.
C5_Witness ==
    /\ returned.req = BlogKey
    /\ returned.err = NoError
    /\ returned.issued = <<ParentKey, BlogKey>>
    /\ store[BlogKey] = NoObject
    /\ EntriesOf(store[ParentKey].Includes, HogeKey) # {}
    /\ EntriesOf(store[ParentKey].Includes, BlogKey) = {}

(* C6 - Successful inclusion.  When reconcileParentProxy reads an existing *)
(* parent that permits inclusion and in which no other child holds the     *)
(* prefix the child asks for, it goes on to update the parent; and when    *)
(* the store accepts that update, the parent holds the entry (child        *)
(* namespace, child name, desired prefix), which is the last entry of the  *)
(* list, behind all the entries there were, if the child had none.         *)
C6_SuccessfulInclusion ==
    [][\A w \in Workers :
          LET childProxy == worker[w].httpProxy
              childKey == ObjectKey(childProxy.Namespace, childProxy.Name)
              entry == Include(childProxy.Namespace, childProxy.Name,
                               <<DesiredPrefix(childProxy)>>)
          IN  /\ ( /\ AtWithParent(w, "reconcileParentProxy")
                   /\ Takes(w, "reconcileParentProxy")
                   /\ Served(w)
                   /\ Permits(store[ParentKey])
                   /\ ~HeldByOther(store[ParentKey].Includes, childKey,
                                   DesiredPrefix(childProxy)) )
                 => worker'[w].pc = "updateParent"
              /\ ( /\ AtWithParent(w, "updateParent")
                   /\ Takes(w, "updateParent")
                   /\ returned'.err = NoError )
                 => /\ store'[ParentKey] # NoObject
                    /\ \E i \in 1..Len(store'[ParentKey].Includes) :
                           store'[ParentKey].Includes[i] = entry
                    /\ EntriesOf(store[ParentKey].Includes, childKey) = {}
                           => store'[ParentKey].Includes
                                  = Append(store[ParentKey].Includes, entry)]_vars

\* sales-team/sales was included behind the entry the parent had.
C6_Witness ==
    /\ Reconciled(SalesKey)
    /\ store[SalesKey] # NoObject
    /\ Len(store[ParentKey].Includes) >= 2
    /\ store[ParentKey].Includes[Len(store[ParentKey].Includes)]
           = Include(SalesKey.Namespace, SalesKey.Name, <<DesiredPrefix(store[SalesKey])>>)
    /\ EntriesOf(store[ParentKey].Includes, HogeKey) # {}

(* C7 - Default prefix law.  When the store accepts the update of the      *)
(* parent, the entry of the child has one condition, whose prefix is "/"   *)
(* followed by the child's name if the child's prefix annotation is absent *)
(* or empty, and the value of the annotation otherwise.                    *)
C7_DefaultPrefixLaw ==
    [][\A w \in Workers :
          ( /\ AtWithParent(w, "updateParent")
            /\ Takes(w, "updateParent")
            /\ returned'.err = NoError )
          => LET childProxy == worker[w].httpProxy
                 annotations == childProxy.Annotations
                 includes == store'[ParentKey].Includes
             IN  \A i \in EntriesOf(includes, ObjectKey(childProxy.Namespace,
                                                        childProxy.Name)) :
                     /\ Len(includes[i].Conditions) = 1
                     /\ includes[i].Conditions[1].Prefix =
                            IF pathPrefixAnnotation \notin DOMAIN annotations
                            THEN <<Slash>> \o childProxy.Name
                            ELSE IF annotations[pathPrefixAnnotation] = EmptyString
                            THEN <<Slash>> \o childProxy.Name
                            ELSE annotations[pathPrefixAnnotation]]_vars

\* blog-team/blog, whose prefix annotation is present and empty, is in the
\* parent with the prefix /blog.
C7_Witness ==
    /\ Reconciled(BlogKey)
    /\ store[BlogKey] # NoObject
    /\ pathPrefixAnnotation \in DOMAIN store[BlogKey].Annotations
    /\ store[BlogKey].Annotations[pathPrefixAnnotation] = EmptyString
    /\ \E i \in 1..Len(store[ParentKey].Includes) :
           store[ParentKey].Includes[i]
               = Include(BlogKey.Namespace, BlogKey.Name, <<PrefixBlog>>)

(* C8 - Prefix update in place.  When the store accepts the update of the  *)
(* parent for a child that had an entry, the list differs from the one     *)
(* before at most in the conditions of that entry, which are the one       *)
(* desired prefix: same length, same position, no second entry.            *)
C8_PrefixUpdateInPlace ==
    [][\A w \in Workers :
          ( /\ AtWithParent(w, "updateParent")
            /\ Takes(w, "updateParent")
            /\ returned'.err = NoError )
          => LET childProxy == worker[w].httpProxy
                 childKey == ObjectKey(childProxy.Namespace, childProxy.Name)
                 before == store[ParentKey].Includes
                 after == store'[ParentKey].Includes
             IN  \A i \in EntriesOf(before, childKey) :
                     /\ Len(after) = Len(before)
                     /\ EntriesOf(after, childKey) = {i}
                     /\ PrefixesOf(after[i]) = {DesiredPrefix(childProxy)}
                     /\ \A j \in 1..Len(before) : j # i => after[j] = before[j]]_vars

\* The entry of blog-team/blog, first in the list with the prefix /old, is
\* still the first of two with the prefix /new.
C8_Witness ==
    /\ Reconciled(BlogKey)
    /\ store[ParentKey].Includes
           = << Include(BlogKey.Namespace, BlogKey.Name, <<PrefixNew>>),
                Include(HogeKey.Namespace, HogeKey.Name, <<PrefixBlog>>) >>

(* C9 - Merge idempotence.  For every include list, child, prefix          *)
(* annotation and permission, when the merge returned a list, the merge of *)
(* the same child into that list returns no error and the same list.       *)
C9_MergeIdempotence ==
    (probe.on /\ Len(probe.outs) = 2) =>
        /\ ~probe.outs[2].stop
        /\ probe.outs[2].err = NoError
        /\ probe.outs[2].Includes = probe.outs[1].Includes

\* The merge ran twice for a child that was in the list with another
\* prefix, behind an entry of another child: the second run met the
\* child's own entry with the prefix it asks for.
C9_Witness ==
    /\ probe.on
    /\ Len(probe.outs) = 2
    /\ Len(probe.parentProxy.Includes) = 2
    /\ KeyOf(probe.parentProxy.Includes[1]) = HogeKey
    /\ KeyOf(probe.parentProxy.Includes[2]) = BlogKey
    /\ KeyOf(probe.childProxy) = BlogKey
    /\ probe.parentProxy.Includes # probe.outs[1].Includes
    /\ PrefixesOf(probe.outs[2].Includes[2]) = {DesiredPrefix(probe.childProxy)}

(* C10 as the specification states it - Removal idempotence.  Whenever     *)
(* cleanupParentProxy reads a parent that has no entry of the child, it    *)
(* returns no error, issues no update of the parent and leaves the store   *)
(* as it was, and Reconcile goes on to remove the finalizer; and when the  *)
(* store accepts that update, the child no longer has the finalizer.       *)
C10_AsStated ==
    [][\A w \in Workers :
          LET childProxy == worker[w].httpProxy
              childKey == ObjectKey(childProxy.Namespace, childProxy.Name)
          IN  /\ ( /\ AtWithParent(w, "cleanupParentProxy")
                   /\ Takes(w, "cleanupParentProxy")
                   /\ Served(w)
                   /\ EntriesOf(store[ParentKey].Includes, childKey) = {} )
                 => /\ worker'[w].pc = "removeFinalizer"
                    /\ worker'[w].issued = <<>>
                    /\ store' = store
              /\ ( /\ Takes(w, "removeFinalizer")
                   /\ returned'.err = NoError )
                 => \/ store'[childKey] = NoObject
                    \/ finalizerName \notin store'[childKey].Finalizers]_vars

----------------------------------------------------------------------------
(* Fair delivery and retry.  The worker does not halt in the middle of an   *)
(* invocation.  The manager's workqueue hands the key of a child to the    *)
(* worker again while Reconcile returns an error for it, and the store     *)
(* does not stay unavailable for ever to the calls made for one child: a   *)
(* step of the cleanup of a child that the store serves is taken if it is  *)
(* possible again and again.  The users are under no obligation.           *)

Fairness ==
    /\ WF_vars(Step("w1"))
    /\ \A req \in ChildKeys :
           /\ SF_vars(Reconcile("w1", req) /\ Served("w1"))
           /\ SF_vars(worker["w1"].req = req /\ CleanupGetParent("w1") /\ Served("w1"))
           /\ SF_vars(worker["w1"].req = req /\ CleanupUpdateParent("w1") /\ Served("w1"))
           /\ SF_vars(worker["w1"].req = req /\ RemoveFinalizer("w1") /\ Served("w1"))

\* the worker, and the users who delete children
NextFair ==
    \/ Step("w1")
    \/ \E key \in ChildKeys : UserDelete(key)

SpecFair == Init /\ [][NextFair]_vars /\ Fairness

\* the child is being deleted and has the finalizer
Terminating(key) ==
    /\ store[key] # NoObject
    /\ store[key].Deleting
    /\ finalizerName \in store[key].Finalizers

(* C11 as the specification states it - Cleanup completeness.  Under fair  *)
(* delivery and retry, once a child that has the finalizer is being        *)
(* deleted, eventually the child is erased from the store and the parent   *)
(* root/example has no entry of it, whatever the state of the parent it    *)
(* declares.                                                               *)
C11_AsStated ==
    \A key \in ChildKeys :
        Terminating(key)
            ~> ( /\ store[key] = NoObject
                 /\ EntriesOf(store[ParentKey].Includes, key) = {} )

\* the key of the parent a child declares
DeclaredKey(childProxy) ==
    LET namespacedName == Split(AnnotationOf(childProxy, parentRefAnnotation))
    IN  IF Len(namespacedName) = 2
        THEN ObjectKey(namespacedName[1], namespacedName[2])
        ELSE NoKey

\* the store st holds the parent that childProxy declares, with an entry of
\* the child
ParentHolds(st, childProxy) ==
    LET parentKey == DeclaredKey(childProxy)
    IN  /\ parentKey \in DOMAIN st
        /\ st[parentKey] # NoObject
        /\ EntriesOf(st[parentKey].Includes,
                     ObjectKey(childProxy.Namespace, childProxy.Name)) # {}

(* C12 - Deletion ordering (I4).  No step erases a child that has the      *)
(* finalizer, or takes the finalizer off it, while the parent the child    *)
(* declares holds an entry of it: not in the state before the step, and    *)
(* not in the state after it.                                              *)
C12_DeletionOrdering ==
    [][\A key \in ChildKeys :
          ( /\ store[key] # NoObject
            /\ finalizerName \in store[key].Finalizers
            /\ \/ store'[key] = NoObject
               \/ finalizerName \notin store'[key].Finalizers )
          => /\ ~ParentHolds(store, store[key])
             /\ ~ParentHolds(store', store[key])]_vars

\* The cleanup of sales-team/sales took its entry out of the parent and
\* then took the finalizer off the child, which is erased.
C12_Witness ==
    /\ returned.req = SalesKey
    /\ returned.err = NoError
    /\ returned.issued = <<ParentKey, SalesKey>>
    /\ store[SalesKey] = NoObject
    /\ ~Busy(SalesKey)
    /\ EntriesOf(store[ParentKey].Includes, SalesKey) = {}

(* C13 as the specification states it - Missing parent during cleanup.     *)
(* Whenever cleanupParentProxy runs for a child that is being deleted, has *)
(* the finalizer and declares a parent that is not in the store, and the   *)
(* store serves the read, Reconcile returns no error at that point, writes *)
(* nothing and goes on to remove the finalizer.                            *)
C13_AsStated ==
    [][\A w \in Workers :
          ( /\ Takes(w, "cleanupParentProxy")
            /\ Served(w)
            /\ worker[w].httpProxy.Deleting
            /\ finalizerName \in worker[w].httpProxy.Finalizers
            /\ Get(DeclaredKey(worker[w].httpProxy)) = NoObject )
          => /\ worker'[w].pc = "removeFinalizer"
             /\ store' = store]_vars

(* C14 as the specification states it - Cleanup is unconditional.          *)
(* Whenever cleanupParentProxy runs for a child that is being deleted and  *)
(* has the finalizer, reads a parent that holds an entry of the child, and *)
(* the store serves the read, it goes on to update the parent with the     *)
(* list without that entry, whether or not the parent has the              *)
(* allow-inclusion annotation.                                             *)
C14_AsStated ==
    [][\A w \in Workers :
          LET childProxy == worker[w].httpProxy
              childKey == ObjectKey(childProxy.Namespace, childProxy.Name)
          IN  ( /\ AtWithParent(w, "cleanupParentProxy")
                /\ Takes(w, "cleanupParentProxy")
                /\ Served(w)
                /\ childProxy.Deleting
                /\ finalizerName \in childProxy.Finalizers
                /\ EntriesOf(store[ParentKey].Includes, childKey) # {} )
              => /\ worker'[w].pc = "cleanupUpdateParent"
                 /\ EntriesOf(worker'[w].parentProxy.Includes, childKey) = {}
                 /\ OthersOf(worker'[w].parentProxy.Includes, childKey)
                        = OthersOf(store[ParentKey].Includes, childKey)]_vars

\* w takes the first step of a Reconcile of req: it goes on to its second
\* call on the store, or Reconcile returns at once
Begins(w, req) ==
    /\ worker[w].pc = "idle"
    /\ \/ worker'[w].pc # "idle" /\ worker'[w].req = req
       \/ worker' = worker /\ First(w) /\ returned' # returned /\ returned'.req = req

\* the resource declares no parent: the annotation is absent, or empty
Unmanaged(httpProxy) ==
    \/ parentRefAnnotation \notin DOMAIN httpProxy.Annotations
    \/ httpProxy.Annotations[parentRefAnnotation] = EmptyString

(* C15 - Unmanaged resources are ignored.  Whenever Reconcile is called    *)
(* for a resource in the store whose parent annotation is absent or empty, *)
(* and the store serves the read of it, Reconcile returns nil after that   *)
(* one read: it makes no further call on the store, has issued no update,  *)
(* logged no error and left the store as it was.                           *)
C15_UnmanagedIgnored ==
    [][\A w \in Workers : \A req \in Requests :
          ( /\ Begins(w, req)
            /\ Served(w)
            /\ store[req] # NoObject
            /\ Unmanaged(store[req]) )
          => /\ worker'[w].pc = "idle"
             /\ returned' = [req |-> req, err |-> NoError, logged |-> NoError,
                             issued |-> <<>>]
             /\ store' = store]_vars

\* Reconcile returned nil for sales-team/sales, whose parent annotation is
\* present and empty: the child has no finalizer and the parent no entry
\* of it.
C15_Witness ==
    /\ returned = [req |-> SalesKey, err |-> NoError, logged |-> NoError,
                   issued |-> <<>>]
    /\ store[SalesKey] # NoObject
    /\ parentRefAnnotation \in DOMAIN store[SalesKey].Annotations
    /\ store[SalesKey].Annotations[parentRefAnnotation] = EmptyString
    /\ store[SalesKey].Finalizers = {}
    /\ EntriesOf(store[ParentKey].Includes, SalesKey) = {}

(* C16 - Stale event.  Whenever Reconcile is called for a key whose object *)
(* is not in the store, it returns after the read of the subject with no   *)
(* update issued and the store as it was, with nil when the store served   *)
(* the read (the result is always the zero ctrl.Result: no requeue); and   *)
(* whenever the read of a subject fails for another reason than not-found, *)
(* Reconcile returns that error: a Reconcile of a child that is in the     *)
(* store and has work to do never returns nil from its first step.         *)
C16_StaleEvent ==
    [][\A w \in Workers : \A req \in Requests :
          Begins(w, req) =>
              /\ store[req] = NoObject
                 => /\ worker'[w].pc = "idle"
                    /\ returned'.issued = <<>>
                    /\ returned'.logged = NoError
                    /\ store' = store
                    /\ Served(w) => returned'.err = NoError
                    /\ returned'.err \in {NoError, ErrUnavailable}
              /\ ( /\ store[req] # NoObject
                   /\ ~Unmanaged(store[req])
                   /\ store[req].Deleting => finalizerName \in store[req].Finalizers )
                 => \/ worker'[w].pc # "idle" /\ worker'[w].httpProxy = store[req]
                    \/ /\ worker'[w].pc = "idle"
                       /\ returned' = [req |-> req, err |-> ErrUnavailable,
                                       logged |-> NoError, issued |-> <<>>]
                       /\ store' = store]_vars

\* Reconcile returned nil for the key of a child that was erased after its
\* cleanup.
C16_Witness ==
    /\ returned = [req |-> BlogKey, err |-> NoError, logged |-> NoError,
                   issued |-> <<>>]
    /\ store[BlogKey] = NoObject
    /\ worker["w1"].pc = "idle"
    /\ EntriesOf(store[ParentKey].Includes, BlogKey) = {}
    /\ Len(store[ParentKey].Includes) = 1
    /\ store[ParentKey].ResourceVersion > 1

(* C17 - The engine never creates a parent.  In every state, whatever      *)
(* Reconciles ran for a child that declares the parent root/missing, which *)
(* is not in the store, that parent is not in the store and no update of   *)
(* it was issued.                                                          *)
C17_NoParentCreated ==
    /\ store[MissingKey] = NoObject
    /\ \A i \in 1..Len(returned.issued) : returned.issued[i] # MissingKey
    /\ \A w \in Workers :
           \A i \in 1..Len(worker[w].issued) : worker[w].issued[i] # MissingKey

\* Reconcile of sales-team/sales, which declares root/missing, added the
\* finalizer and returned the not-found error of the parent.
C17_Witness ==
    /\ returned = [req |-> SalesKey, err |-> ErrNotFound, logged |-> ErrNotFound,
                   issued |-> <<SalesKey>>]
    /\ store[SalesKey] # NoObject
    /\ AnnotationOf(store[SalesKey], parentRefAnnotation) = RefTo(MissingKey)
    /\ finalizerName \in store[SalesKey].Finalizers
    /\ ~store[SalesKey].Deleting
    /\ store[MissingKey] = NoObject

\* w is in reconcileParentProxy for a child that is not being deleted and
\* declares a parent that is not in the store, and takes its step, which
\* the store serves
ParentNotFound(w) ==
    /\ Takes(w, "reconcileParentProxy")
    /\ Served(w)
    /\ ~worker[w].httpProxy.Deleting
    /\ DeclaredKey(worker[w].httpProxy) # NoKey
    /\ Get(DeclaredKey(worker[w].httpProxy)) = NoObject

(* C18 as the specification states it - ParentNotFound is terminal for the *)
(* event.  Whenever reconcileParentProxy finds that the parent the child   *)
(* declares is not in the store, Reconcile logs the error and returns nil  *)
(* to the caller, which gets no signal to retry.                           *)
C18_AsStated ==
    [][\A w \in Workers :
          ParentNotFound(w)
          => /\ worker'[w].pc = "idle"
             /\ returned'.logged = ErrNotFound
             /\ returned'.err = NoError]_vars

(* C18 - ParentNotFound is returned for retry.  Whenever                   *)
(* reconcileParentProxy finds that the parent the child declares is not in *)
(* the store, Reconcile logs the not-found error and returns it to the     *)
(* caller, with no update issued in that step and the store as it was.     *)
C18_ParentNotFoundReturned ==
    [][\A w \in Workers :
          ParentNotFound(w)
          => /\ worker'[w].pc = "idle"
             /\ returned'.req = worker[w].req
             /\ returned'.logged = ErrNotFound
             /\ returned'.err = ErrNotFound
             /\ returned'.issued = worker[w].issued
             /\ store' = store]_vars

\* A later Reconcile of sales-team/sales, which has the finalizer already,
\* returned the not-found error of root/missing again.
C18_Witness ==
    /\ returned = [req |-> SalesKey, err |-> ErrNotFound, logged |-> ErrNotFound,
                   issued |-> <<>>]
    /\ store[SalesKey] # NoObject
    /\ ~store[SalesKey].Deleting
    /\ finalizerName \in store[SalesKey].Finalizers
    /\ DeclaredKey(store[SalesKey]) = MissingKey

(* C19 - Conflicts are terminal and not retried.  Whenever                 *)
(* reconcileParentProxy reads a parent that does not permit inclusion, or  *)
(* in which another child holds the prefix the child asks for, Reconcile   *)
(* returns nil to the caller, having logged the inclusion-not-permitted or *)
(* the duplicate-prefix error; and no Reconcile that logged one of these   *)
(* two errors returns an error.  The result is always the zero             *)
(* ctrl.Result: no requeue.                                                *)
C19_ConflictsTerminal ==
    [][\A w \in Workers :
          /\ ( /\ AtWithParent(w, "reconcileParentProxy")
               /\ Takes(w, "reconcileParentProxy")
               /\ Served(w)
               /\ \/ ~Permits(store[ParentKey])
                  \/ HeldByOther(store[ParentKey].Includes,
                                 ObjectKey(worker[w].httpProxy.Namespace,
                                           worker[w].httpProxy.Name),
                                 DesiredPrefix(worker[w].httpProxy)) )
             => /\ worker'[w].pc = "idle"
                /\ returned'.req = worker[w].req
                /\ returned'.err = NoError
                /\ returned'.logged \in {ErrNotAllowed, ErrDuplicatePrefix}
          /\ ( /\ worker[w].pc # "idle"
               /\ worker'[w].pc = "idle"
               /\ returned'.logged \in {ErrNotAllowed, ErrDuplicatePrefix} )
             => returned'.err = NoError]_vars

\* Reconcile of blog-team/blog added the finalizer, was refused by a parent
\* without the allow-inclusion annotation, and returned nil.
C19_Witness ==
    /\ returned = [req |-> BlogKey, err |-> NoError, logged |-> ErrNotAllowed,
                   issued |-> <<BlogKey>>]
    /\ store[BlogKey] # NoObject
    /\ finalizerName \in store[BlogKey].Finalizers
    /\ allowInclusionAnnotation \notin DOMAIN store[ParentKey].Annotations

\* the steps of Reconcile that update an object, and the object each writes
WritePcs == {"addFinalizer", "updateParent", "cleanupUpdateParent", "removeFinalizer"}

Writing(w) ==
    CASE worker[w].pc = "addFinalizer"
           -> [worker[w].httpProxy EXCEPT !.Finalizers = @ \cup {finalizerName}]
      [] worker[w].pc = "removeFinalizer"
           -> [worker[w].httpProxy EXCEPT !.Finalizers = @ \ {finalizerName}]
      [] OTHER -> worker[w].parentProxy

\* Reconcile of w ended with an error
Failed(w) == worker'[w].pc = "idle" /\ returned'.err # NoError

(* C20 - Store failures are surfaced for retry.  Whenever an update of     *)
(* Reconcile (of the child to add or remove the finalizer, of the parent   *)
(* in the merge or the cleanup) is one the store rejects, Reconcile        *)
(* returns the error of the store at that step, with the store as it was;  *)
(* whenever a step ends Reconcile with an error the store is as it was,    *)
(* include list of the parent included, and no further step of that        *)
(* invocation follows; an update that did not change the store though it   *)
(* had to is never passed over in silence; and whenever the read of a      *)
(* parent that is in the store ends Reconcile, it is with the error of the *)
(* read or, in the merge, with a logged conflict, no update issued.        *)
C20_StoreFailuresSurfaced ==
    [][\A w \in Workers :
          /\ ( worker[w].pc \in WritePcs /\ worker'[w] # worker[w] )
             => LET obj == Writing(w)
                    key == ObjectKey(obj.Namespace, obj.Name)
                IN  /\ UpdateError(obj) # NoError
                       => /\ Failed(w)
                          /\ returned'.req = worker[w].req
                          /\ returned'.err \in {UpdateError(obj), ErrUnavailable}
                          /\ returned'.issued = Append(worker[w].issued, key)
                    /\ Failed(w) => store' = store
                    /\ ( /\ UpdateError(obj) = NoError
                         /\ Updated(obj) # store
                         /\ store' = store )
                       => Failed(w) /\ returned'.err = ErrUnavailable
          /\ ( /\ worker[w].pc \in {"reconcileParentProxy", "cleanupParentProxy"}
               /\ worker'[w] # worker[w]
               /\ DeclaredKey(worker[w].httpProxy) # NoKey
               /\ Get(DeclaredKey(worker[w].httpProxy)) # NoObject )
             => /\ store' = store
                /\ worker'[w].pc = "idle"
                   => /\ returned'.req = worker[w].req
                      /\ returned'.issued = worker[w].issued
                      /\ \/ returned'.err # NoError
                         \/ /\ worker[w].pc = "reconcileParentProxy"
                            /\ returned'.logged \in {ErrNotAllowed, ErrDuplicatePrefix}
                /\ ~Served(w)
                   => returned' = [req |-> worker[w].req, err |-> ErrUnavailable,
                                   logged |-> IF worker[w].pc = "reconcileParentProxy"
                                              THEN ErrUnavailable ELSE NoError,
                                   issued |-> worker[w].issued]]_vars

\* The store rejected the update of the parent in the merge of a child,
\* because the parent was edited after it was read: Reconcile returned the
\* conflict and the parent has no entry of the child.
C20_Witness ==
    /\ returned.err = ErrConflict
    /\ returned.req \in ChildKeys
    /\ returned.logged = ErrConflict
    /\ returned.issued # <<>>
    /\ returned.issued[Len(returned.issued)] = ParentKey
    /\ edits > 0
    /\ worker["w1"].pc = "idle"
    /\ EntriesOf(store[ParentKey].Includes, returned.req) = {}

\* the value of the parent annotation that worker w read with its child
RefOf(w) == AnnotationOf(worker[w].httpProxy, parentRefAnnotation)

\* exactly two segments, neither of them empty
WellFormed(parentRef) ==
    /\ Len(Split(parentRef)) = 2
    /\ Split(parentRef)[1] # EmptyString
    /\ Split(parentRef)[2] # EmptyString

(* C21 as the specification states it - Parent reference parsing.          *)
(* Whenever reconcileParentProxy runs for a child whose parent annotation  *)
(* is not two non-empty segments around one "/", Reconcile logs the        *)
(* invalid-parent error and returns nil to the caller, which gets no       *)
(* signal to retry, and the store is as it was.                            *)
C21_AsStated ==
    [][\A w \in Workers :
          ( /\ Takes(w, "reconcileParentProxy")
            /\ Served(w)
            /\ ~WellFormed(RefOf(w)) )
          => /\ worker'[w].pc = "idle"
             /\ returned'.logged = ErrInvalidParent
             /\ returned'.err = NoError
             /\ store' = store]_vars

(* C21 - Parent reference parsing.  Whenever reconcileParentProxy or       *)
(* cleanupParentProxy runs for a child whose parent annotation has one     *)
(* segment, or three or more, Reconcile returns the invalid-parent error   *)
(* to the caller whatever the store would answer (no call is made on it),  *)
(* with no update issued in that step and the store as it was.  An         *)
(* annotation of two segments of which one is empty is not refused: the    *)
(* parent is looked up under that key, and when the store serves the read  *)
(* Reconcile returns its not-found error, the store as it was.             *)
C21_ParseError ==
    [][\A w \in Workers :
          ( Takes(w, "reconcileParentProxy") \/ Takes(w, "cleanupParentProxy") )
          => /\ Len(Split(RefOf(w))) # 2
                => /\ worker'[w].pc = "idle"
                   /\ returned'.req = worker[w].req
                   /\ returned'.err = ErrInvalidParent
                   /\ worker[w].pc = "reconcileParentProxy"
                          => returned'.logged = ErrInvalidParent
                   /\ returned'.issued = worker[w].issued
                   /\ store' = store
             /\ ( /\ Len(Split(RefOf(w))) = 2
                  /\ ~WellFormed(RefOf(w))
                  /\ Served(w) )
                => /\ worker'[w].pc = "idle"
                   /\ returned'.err = ErrNotFound
                   /\ returned'.issued = worker[w].issued
                   /\ store' = store]_vars

\* Reconcile of sales-team/sales, whose parent annotation is
\* root/example/x, added the finalizer and returned the invalid-parent
\* error; the parent root/example has no entry of the child.
C21_Witness ==
    /\ returned = [req |-> SalesKey, err |-> ErrInvalidParent,
                   logged |-> ErrInvalidParent, issued |-> <<SalesKey>>]
    /\ store[SalesKey] # NoObject
    /\ AnnotationOf(store[SalesKey], parentRefAnnotation) = ThreeSegments
    /\ finalizerName \in store[SalesKey].Finalizers
    /\ EntriesOf(store[ParentKey].Includes, SalesKey) = {}

(* C22 - No lost update under concurrency.  With two workers whose steps   *)
(* interleave: the parent that reconcileParentProxy goes on to update is   *)
(* the one the store holds at that read; an update of the parent, in the   *)
(* merge or the cleanup, that was read at another resource version than    *)
(* the store now holds is rejected, Reconcile returns the error with the   *)
(* store as it was, and the retry is a new Reconcile that starts from its  *)
(* reads; an update the store accepts leaves the entries of all other      *)
(* children as they were in the store before it and, in the merge, the     *)
(* parent holds the entry of the child.  So the entries of two children    *)
(* whose updates the store accepted are both in the list.                  *)
C22_NoLostUpdate ==
    [][\A w \in Workers :
          LET childProxy == worker[w].httpProxy
              childKey == ObjectKey(childProxy.Namespace, childProxy.Name)
          IN  /\ ( /\ AtWithParent(w, "reconcileParentProxy")
                   /\ Takes(w, "reconcileParentProxy")
                   /\ worker'[w].pc = "updateParent" )
                 => /\ worker'[w].parentProxy.ResourceVersion
                           = store[ParentKey].ResourceVersion
                    /\ OthersOf(worker'[w].parentProxy.Includes, childKey)
                           = OthersOf(store[ParentKey].Includes, childKey)
              /\ ( /\ AtWithParent(w, "updateParent") \/ AtWithParent(w, "cleanupUpdateParent")
                   /\ worker'[w] # worker[w] )
                 => /\ worker[w].parentProxy.ResourceVersion
                           # store[ParentKey].ResourceVersion
                       => /\ Failed(w)
                          /\ returned'.req = worker[w].req
                          /\ returned'.err \in {ErrConflict, ErrUnavailable}
                          /\ store' = store
                    /\ OthersOf(store'[ParentKey].Includes, childKey)
                           = OthersOf(store[ParentKey].Includes, childKey)
                    /\ ( worker[w].pc = "updateParent" /\ returned'.err = NoError )
                       => EntriesOf(store'[ParentKey].Includes, childKey) # {}]_vars

\* A worker is about to update the parent for sales-team/sales with a list
\* it read before the entry of blog-team/blog was written: the list it
\* holds has no entry of blog-team/blog, the list in the store has one.
C22_Witness ==
    \E w \in Workers :
        /\ worker[w].pc = "updateParent"
        /\ worker[w].req = SalesKey
        /\ EntriesOf(worker[w].parentProxy.Includes, BlogKey) = {}
        /\ EntriesOf(worker[w].parentProxy.Includes, SalesKey) # {}
        /\ store[ParentKey] # NoObject
        /\ EntriesOf(store[ParentKey].Includes, BlogKey) # {}
        /\ EntriesOf(store[ParentKey].Includes, SalesKey) = {}
        /\ worker[w].parentProxy.ResourceVersion < store[ParentKey].ResourceVersion

\* the steps of the merge protocol and of the cleanup
MergePcs == {"addFinalizer", "reconcileParentProxy", "updateParent"}
CleanupPcs == {"cleanupParentProxy", "cleanupUpdateParent", "removeFinalizer"}

(* C23 - Deletion is monotonic.  No step takes the deletion request off a  *)
(* child.  A Reconcile that reads a child whose deletion was requested     *)
(* returns at once or goes on to the cleanup, never to the merge protocol; *)
(* and no step of such a Reconcile adds the finalizer to the child, adds   *)
(* an entry of the child to a list, or changes an entry of the child: the  *)
(* list it leaves is the one it found, with or without the entry of the    *)
(* child.                                                                  *)
C23_DeletionMonotonic ==
    [][/\ \A key \in ChildKeys :
             (store[key] # NoObject /\ store[key].Deleting)
                 => (store'[key] = NoObject \/ store'[key].Deleting)
       /\ \A w \in Workers :
             /\ \A req \in Requests :
                   ( /\ Begins(w, req)
                     /\ Served(w)
                     /\ store[req] # NoObject
                     /\ store[req].Deleting )
                   => worker'[w].pc \in {"idle", "cleanupParentProxy"}
             /\ worker'[w].pc \in MergePcs => ~worker'[w].httpProxy.Deleting
             /\ ( worker[w].pc \in CleanupPcs /\ worker'[w] # worker[w] )
                => LET key == worker[w].req
                   IN  /\ worker[w].httpProxy.Deleting
                       /\ worker'[w].pc \in CleanupPcs \cup {"idle"}
                       /\ store'[key] # NoObject
                              => store'[key].Finalizers \subseteq store[key].Finalizers
                       /\ \A parentKey \in Keys :
                              (store[parentKey] # NoObject /\ store'[parentKey] # NoObject)
                              => \/ store'[parentKey].Includes = store[parentKey].Includes
                                 \/ /\ EntriesOf(store'[parentKey].Includes, key) = {}
                                    /\ store'[parentKey].Includes
                                           = OthersOf(store[parentKey].Includes, key)]_vars

\* The cleanup of blog-team/blog is about to update the parent: the child
\* asks for the prefix /new since a user changed its annotation, and its
\* entry in the parent still has the prefix it was included with.
C23_Witness ==
    /\ worker["w1"].pc = "cleanupUpdateParent"
    /\ worker["w1"].req = BlogKey
    /\ store[BlogKey] # NoObject
    /\ store[BlogKey].Deleting
    /\ DesiredPrefix(store[BlogKey]) = PrefixNew
    /\ \E i \in EntriesOf(store[ParentKey].Includes, BlogKey) :
           PrefixNew \notin PrefixesOf(store[ParentKey].Includes[i])

\* The store is as a successful Reconcile of child key leaves it: the child
\* is not being deleted and has the finalizer, and the parent root/example,
\* which it declares, permits inclusion and holds one entry of the child,
\* with the prefix the child asks for as its one condition.
Settled(key) ==
    /\ store[key] # NoObject
    /\ ~store[key].Deleting
    /\ finalizerName \in store[key].Finalizers
    /\ AnnotationOf(store[key], parentRefAnnotation) = RefTo(ParentKey)
    /\ store[ParentKey] # NoObject
    /\ Permits(store[ParentKey])
    /\ \E i \in 1..Len(store[ParentKey].Includes) :
           /\ EntriesOf(store[ParentKey].Includes, key) = {i}
           /\ store[ParentKey].Includes[i]
                  = Include(key.Namespace, key.Name, <<DesiredPrefix(store[key])>>)
    /\ ~HeldByOther(store[ParentKey].Includes, key, DesiredPrefix(store[key]))

(* C24 - Level-triggered reconciliation.  A Reconcile carries nothing over *)
(* from the events before it: its first step reads the child the store     *)
(* holds.  When the store is as a successful Reconcile of a child leaves   *)
(* it, every step of a further Reconcile of that child, working on what    *)
(* the store holds, leaves the store as it is: the first step goes on to   *)
(* the merge without an update of the child, the merge computes the list   *)
(* the parent has, and the update of the parent changes nothing; Reconcile *)
(* returns nil unless the store fails.  And an update of the parent that   *)
(* the store accepts leaves the entry of the child with the prefix that    *)
(* the child read by this Reconcile asks for, whatever the events missed.  *)
C24_LevelTriggered ==
    [][\A w \in Workers : \A key \in ChildKeys :
          /\ ( Begins(w, key) /\ worker'[w].pc # "idle" )
             => /\ worker'[w].httpProxy = store[key]
                /\ worker'[w].issued = <<>>
          /\ ( Begins(w, key) /\ Served(w) /\ Settled(key) )
             => /\ worker'[w].pc = "reconcileParentProxy"
                /\ store' = store
          /\ ( /\ Takes(w, "reconcileParentProxy")
               /\ worker[w].req = key
               /\ worker[w].httpProxy = store[key]
               /\ Served(w)
               /\ Settled(key) )
             => /\ worker'[w].pc = "updateParent"
                /\ worker'[w].parentProxy = store[ParentKey]
                /\ store' = store
          /\ ( /\ Takes(w, "updateParent")
               /\ worker[w].req = key
               /\ worker[w].parentProxy = store[ParentKey]
               /\ Settled(key) )
             => /\ store' = store
                /\ worker'[w].pc = "idle"
                /\ returned'.err \in {NoError, ErrUnavailable}
                /\ returned'.logged = returned'.err
          /\ ( /\ Takes(w, "updateParent")
               /\ worker[w].req = key
               /\ AtWithParent(w, "updateParent")
               /\ returned'.err = NoError )
             => \E i \in 1..Len(store'[ParentKey].Includes) :
                    /\ EntriesOf(store'[ParentKey].Includes, key) = {i}
                    /\ store'[ParentKey].Includes[i]
                           = Include(key.Namespace, key.Name,
                                     <<DesiredPrefix(worker[w].httpProxy)>>)]_vars

\* A further Reconcile of blog-team/blog, in a store that a Reconcile of it
\* settled, is about to update the parent with the parent the store holds.
C24_Witness ==
    /\ Settled(BlogKey)
    /\ worker["w1"].pc = "updateParent"
    /\ worker["w1"].req = BlogKey
    /\ worker["w1"].issued = <<>>
    /\ worker["w1"].httpProxy = store[BlogKey]
    /\ worker["w1"].parentProxy = store[ParentKey]
    /\ Len(store[ParentKey].Includes) = 2

(* C25 as the specification states it - Single-parent membership (I3).     *)
(* When the parent annotation of sales-team/sales names root/other and a   *)
(* Reconcile of the child has returned nil after the store accepted its    *)
(* update of root/other, which holds the entry of the child, the list of   *)
(* root/example, the parent the child named before, has no entry of it.    *)
C25_AsStated ==
    ( /\ returned.req = SalesKey
      /\ returned.err = NoError
      /\ returned.logged = NoError
      /\ returned.issued # <<>>
      /\ returned.issued[Len(returned.issued)] = OtherKey
      /\ store[SalesKey] # NoObject
      /\ DeclaredKey(store[SalesKey]) = OtherKey
      /\ ParentHolds(store, store[SalesKey]) )
    => EntriesOf(store[ParentKey].Includes, SalesKey) = {}

(* C26 - Marker before merge.  A Reconcile that reads a child that is not  *)
(* being deleted and has no finalizer goes on to the update that adds it,  *)
(* not to the merge.  When that update fails, Reconcile returns the error  *)
(* with the store as it was: no read or update of the parent follows in    *)
(* the invocation.  When the store accepts it, the child in the store has  *)
(* the finalizer.  No update of a parent is issued before it.  And         *)
(* whenever the store accepts the update of the parent in the merge, the   *)
(* child is in the store with the finalizer at that step.                  *)
C26_MarkerBeforeMerge ==
    [][\A w \in Workers :
          LET key == worker[w].req
          IN  /\ \A req \in ChildKeys :
                    ( /\ Begins(w, req)
                      /\ Served(w)
                      /\ store[req] # NoObject
                      /\ ~Unmanaged(store[req])
                      /\ ~store[req].Deleting
                      /\ finalizerName \notin store[req].Finalizers )
                    => worker'[w].pc = "addFinalizer"
              /\ Takes(w, "addFinalizer")
                 => /\ worker[w].issued = <<>>
                    /\ \/ /\ Failed(w)
                          /\ returned'.issued = <<key>>
                          /\ store' = store
                       \/ /\ worker'[w].pc = "reconcileParentProxy"
                          /\ worker'[w].issued = <<key>>
                          /\ store'[key] # NoObject
                          /\ finalizerName \in store'[key].Finalizers
                          /\ worker'[w].httpProxy = store'[key]
              /\ worker[w].pc \in {"reconcileParentProxy", "updateParent"}
                 => /\ finalizerName \in worker[w].httpProxy.Finalizers
                    /\ worker[w].issued \in {<<>>, <<key>>}
              /\ ( Takes(w, "updateParent") /\ returned'.err = NoError )
                 => /\ store[key] # NoObject
                    /\ finalizerName \in store[key].Finalizers
                    /\ store'[key] # NoObject
                    /\ finalizerName \in store'[key].Finalizers]_vars

\* Reconcile of sales-team/sales added the finalizer and then wrote the
\* entry of the child: the child has the finalizer, the parent the entry.
C26_Witness ==
    /\ returned = [req |-> SalesKey, err |-> NoError, logged |-> NoError,
                   issued |-> <<SalesKey, ParentKey>>]
    /\ store[SalesKey] # NoObject
    /\ finalizerName \in store[SalesKey].Finalizers
    /\ EntriesOf(store[ParentKey].Includes, SalesKey) # {}

(* C27 - Marker detached only after cleanup.  Reconcile comes to the       *)
(* update that takes the finalizer off a child only from a cleanup that    *)
(* succeeded: either cleanupParentProxy read a parent that permits         *)
(* inclusion and has no entry of the child, and wrote nothing, or the      *)
(* store accepted its update of the parent.  The update of the child is    *)
(* the last one of the invocation.  When a step of the cleanup does not    *)
(* go on, Reconcile returns an error, has issued no update of the child,   *)
(* and the child is in the store as before, with the finalizer.            *)
C27_DetachedAfterCleanup ==
    [][\A w \in Workers :
          LET key == worker[w].req
              childProxy == worker[w].httpProxy
              parentKey == DeclaredKey(childProxy)
          IN  /\ ( worker[w].pc # "removeFinalizer" /\ worker'[w].pc = "removeFinalizer" )
                 => \/ /\ worker[w].pc = "cleanupParentProxy"
                       /\ Get(parentKey) # NoObject
                       /\ Permits(Get(parentKey))
                       /\ EntriesOf(Get(parentKey).Includes, key) = {}
                       /\ worker'[w].issued = <<>>
                       /\ store' = store
                    \/ /\ worker[w].pc = "cleanupUpdateParent"
                       /\ worker'[w].issued = <<parentKey>>
                       /\ store'[parentKey] # NoObject
                       /\ store'[parentKey].Includes = worker[w].parentProxy.Includes
                       /\ store' # store
              /\ Takes(w, "removeFinalizer")
                 => /\ worker[w].issued \in {<<>>, <<parentKey>>}
                    /\ returned'.issued = Append(worker[w].issued, key)
              /\ ( /\ worker[w].pc \in {"cleanupParentProxy", "cleanupUpdateParent"}
                   /\ Takes(w, worker[w].pc)
                   /\ worker'[w].pc \notin {"cleanupUpdateParent", "removeFinalizer"} )
                 => /\ Failed(w)
                    /\ returned'.req = key
                    /\ \A i \in 1..Len(returned'.issued) : returned'.issued[i] # key
                    /\ store' = store
                    /\ store'[key] # NoObject
                    /\ finalizerName \in store'[key].Finalizers]_vars

\* The store accepted the update of the parent in the cleanup of
\* sales-team/sales: the parent has no entry of the child, which still has
\* the finalizer, and Reconcile is about to take the finalizer off.
C27_Witness ==
    /\ worker["w1"].pc = "removeFinalizer"
    /\ worker["w1"].req = SalesKey
    /\ worker["w1"].issued = <<ParentKey>>
    /\ store[SalesKey] # NoObject
    /\ store[SalesKey].Deleting
    /\ finalizerName \in store[SalesKey].Finalizers
    /\ EntriesOf(store[ParentKey].Includes, SalesKey) = {}

(* C28 as the specification states it - Write only if changed.  Whenever   *)
(* reconcileParentProxy reads, for a child that is not being deleted, a    *)
(* parent whose list holds the entry of the child with the prefix the      *)
(* child asks for, Reconcile does not go on to update the parent.  And     *)
(* whenever cleanupParentProxy goes on to update the parent, the parent it *)
(* read held an entry of the child and the list it writes is another one.  *)
C28_AsStated ==
    [][\A w \in Workers :
          LET childProxy == worker[w].httpProxy
              key == worker[w].req
              parentKey == DeclaredKey(childProxy)
          IN  /\ ( /\ Takes(w, "reconcileParentProxy")
                   /\ Served(w)
                   /\ ~childProxy.Deleting
                   /\ Get(parentKey) # NoObject
                   /\ \E i \in 1..Len(Get(parentKey).Includes) :
                          /\ EntriesOf(Get(parentKey).Includes, key) = {i}
                          /\ Get(parentKey).Includes[i]
                                 = Include(key.Namespace, key.Name,
                                           <<DesiredPrefix(childProxy)>>) )
                 => worker'[w].pc # "updateParent"
              /\ ( Takes(w, "cleanupParentProxy") /\ worker'[w].pc = "cleanupUpdateParent" )
                 => /\ Get(parentKey) # NoObject
                    /\ EntriesOf(Get(parentKey).Includes, key) # {}
                    /\ worker'[w].parentProxy.Includes # Get(parentKey).Includes]_vars

\* the value of the object as the store holds it after a change of the
\* finalizers alone
OnlyFinalizers(old, new) ==
    new = [old EXCEPT !.Finalizers = new.Finalizers,
                      !.ResourceVersion = new.ResourceVersion]

\* the same for a change of the include list alone
OnlyIncludes(old, new) ==
    new = [old EXCEPT !.Includes = new.Includes,
                      !.ResourceVersion = new.ResourceVersion]

(* C29 - Write footprint of one Reconcile.  The step that begins Reconcile *)
(* changes nothing in the store.  Every later step of an invocation for    *)
(* key S changes at most one object, creates none, and changes only S, in  *)
(* the two updates of the finalizer, or the parent that the annotation of  *)
(* S as read names, in the two updates of the parent.  On S the finalizer  *)
(* of the controller is added or removed and nothing else changes: the     *)
(* annotations and the other finalizers stay, and S is erased only when    *)
(* its deletion was requested and that finalizer was its last.  On the     *)
(* parent only the include list changes.  An invocation issues at most two *)
(* updates, for S and that parent, each at most once.                      *)
C29_WriteFootprint ==
    [][\A w \in Workers :
          LET pc == worker[w].pc
              key == worker[w].req
              parentKey == DeclaredKey(worker[w].httpProxy)
          IN  /\ (\E req \in Requests : Begins(w, req)) => store' = store
              /\ ( pc # "idle" /\ worker'[w] # worker[w] )
                 => /\ \A k \in Keys :
                        store'[k] # store[k]
                        => /\ store[k] # NoObject
                           /\ \/ /\ k = key
                                 /\ pc = "addFinalizer"
                                 /\ store'[k] # NoObject
                                 /\ OnlyFinalizers(store[k], store'[k])
                                 /\ store'[k].Finalizers
                                        = store[k].Finalizers \cup {finalizerName}
                              \/ /\ k = key
                                 /\ pc = "removeFinalizer"
                                 /\ IF store'[k] = NoObject
                                    THEN /\ store[k].Deleting
                                         /\ store[k].Finalizers = {finalizerName}
                                    ELSE /\ OnlyFinalizers(store[k], store'[k])
                                         /\ store'[k].Finalizers
                                                = store[k].Finalizers \ {finalizerName}
                              \/ /\ k = parentKey
                                 /\ k # key
                                 /\ pc \in {"updateParent", "cleanupUpdateParent"}
                                 /\ store'[k] # NoObject
                                 /\ OnlyIncludes(store[k], store'[k])
                    /\ worker'[w].pc = "idle"
                       => /\ returned'.issued \in
                                 {<<>>, <<key>>, <<parentKey>>,
                                  <<key, parentKey>>, <<parentKey, key>>}
                          /\ parentKey # key]_vars

\* The cleanup of blog-team/blog, which has the finalizer of another
\* controller as well, wrote the parent and the child: the child is still
\* in the store, with that other finalizer and the annotation it had.
C29_Witness ==
    /\ returned = [req |-> BlogKey, err |-> NoError, logged |-> NoError,
                   issued |-> <<ParentKey, BlogKey>>]
    /\ store[BlogKey] # NoObject
    /\ store[BlogKey].Deleting
    /\ store[BlogKey].Finalizers = {OtherFinalizer}
    /\ AnnotationOf(store[BlogKey], parentRefAnnotation) = RefTo(ParentKey)
    /\ EntriesOf(store[ParentKey].Includes, BlogKey) = {}

\* The child is in the store with the finalizer and without the parent
\* annotation, and no invocation for it is under way that read it with the
\* annotation.
Orphaned(key) ==
    /\ store[key] # NoObject
    /\ finalizerName \in store[key].Finalizers
    /\ Unmanaged(store[key])
    /\ \A w \in Workers :
           ( worker[w].req = key /\ worker[w].pc # "idle" )
           => /\ worker[w].httpProxy # NoObject
              /\ Unmanaged(worker[w].httpProxy)

\* a step of the engine, not of a user
EngineStep == worker' # worker \/ returned' # returned

(* C30 - Parent annotation removed while included.  While a child has the  *)
(* finalizer and no parent annotation, whether or not its deletion was     *)
(* requested, no step of the engine changes the child in the store or      *)
(* erases it, and none changes the entries of the child in the list of an  *)
(* object: the finalizer stays and so does the entry in the former parent. *)
(* Every Reconcile of the child that the store serves returns nil at once  *)
(* and has issued no update.                                               *)
C30_OrphanedForEver ==
    [][\A key \in ChildKeys :
          ( Orphaned(key) /\ EngineStep )
          => /\ store'[key] = store[key]
             /\ \A k \in Keys :
                    ( store[k] # NoObject /\ store'[k] # NoObject )
                    => SelectSeq(store'[k].Includes, LAMBDA inc : KeyOf(inc) = key)
                           = SelectSeq(store[k].Includes, LAMBDA inc : KeyOf(inc) = key)
             /\ \A w \in Workers :
                    ( Begins(w, key) /\ Served(w) )
                    => /\ worker' = worker
                       /\ returned' = [req |-> key, err |-> NoError,
                                       logged |-> NoError, issued |-> <<>>]
             /\ Orphaned(key)']_vars

\* sales-team/sales was included in root/example and has lost its parent
\* annotation; its deletion was requested and Reconcile returned nil for
\* it: it has the finalizer and the parent has the entry.
C30_Witness ==
    /\ returned = [req |-> SalesKey, err |-> NoError, logged |-> NoError,
                   issued |-> <<>>]
    /\ worker["w1"].pc = "idle"
    /\ store[SalesKey] # NoObject
    /\ store[SalesKey].Deleting
    /\ parentRefAnnotation \notin DOMAIN store[SalesKey].Annotations
    /\ finalizerName \in store[SalesKey].Finalizers
    /\ EntriesOf(store[ParentKey].Includes, SalesKey) # {}

(* C31 as the specification states it - Crash-safe two-step cleanup.       *)
(* After a cleanup of sales-team/sales whose update of the parent the      *)
(* store accepted and whose update of the child failed, every Reconcile of *)
(* the child that the store serves goes on to cleanupParentProxy, which    *)
(* finds no entry of the child, issues no update of the parent and goes on *)
(* to remove the finalizer; and when the store accepts that update, the    *)
(* child is erased and the parent is as it was before the step, with the   *)
(* entries other children got in between.                                  *)
C31_AsStated ==
    [][\A w \in Workers :
          /\ ( /\ Begins(w, SalesKey)
               /\ Served(w)
               /\ store[SalesKey] # NoObject )
             => /\ worker'[w].pc = "cleanupParentProxy"
                /\ store' = store
          /\ ( /\ Takes(w, "cleanupParentProxy")
               /\ worker[w].req = SalesKey
               /\ Served(w) )
             => /\ EntriesOf(store[ParentKey].Includes, SalesKey) = {}
                /\ worker'[w].pc = "removeFinalizer"
                /\ worker'[w].issued = <<>>
                /\ store' = store
          /\ ( /\ Takes(w, "removeFinalizer")
               /\ worker[w].req = SalesKey
               /\ returned'.err = NoError )
             => /\ returned'.issued = <<SalesKey>>
                /\ store'[SalesKey] = NoObject
                /\ store'[ParentKey] = store[ParentKey]]_vars

====
